---- MODULE Spec2Model ----
(***************************************************************************)
(* Voice relay backend: the Session Gateway (VoiceGateway), the            *)
(* Conversation Context Manager (VoiceService), the Upstream Realtime      *)
(* Client (OpenAIRealtimeService) and its tool handler.                    *)
(*                                                                         *)
(* The process is a single-threaded event loop.  Every async handler runs  *)
(* atomically from one `await` of an external call (Profile Store,         *)
(* summarization) to the next; a handler suspended at such an await is a   *)
(* record in the bag `tasks`, and the action that resumes it is the        *)
(* resolution (or rejection) of the awaited call.  An `await` of a promise *)
(* that is already settled continues in the microtask queue, before any    *)
(* other event is dispatched, so it does not split an action.              *)
(*                                                                         *)
(* The environment (clients, the provider, the Profile Store) is bounded   *)
(* by the quota each specification starts with; a specification is one     *)
(* scenario: the quota of its Init and the environment's inputs of its     *)
(* Next.  Every handler, continuation and timer the inputs of a scenario   *)
(* can set off is part of its Next.                                        *)
(***************************************************************************)
EXTENDS Integers, Sequences, FiniteSets, Bags, TLC

\* ------------------------------------------------------------- bounds
\* scenario Spec (session lifecycle): conversation rows the Profile Store
\* creates, client commands issued
MaxConv == 2
MaxCmds == 2
\* scenario SpecCommands (every command, one session): client commands issued
CmdCmds == 3
\* scenario SpecTranscripts (finalized transcripts, one session): client
\* commands issued, provider messages delivered
TrCmds == 2
TrMsgs == 2
\* scenario SpecStart (starting a session in any language): client commands
\* issued
StCmds == 2
\* scenario SpecLeadScore (ending a session with any draft and history): user
\* messages recorded, client commands issued
MaxUserMessages == 10
LsCmds == 1
\* scenario SpecAudio (audio streaming, one session): client commands issued,
\* provider messages delivered
AuCmds == 2
AuMsgs == 3
\* scenario SpecTools (tool calls, one session): client commands issued,
\* provider messages delivered
ToCmds == 1
ToMsgs == 2
\* scenario SpecMerge (patient info of a running session): provider messages
\* delivered
MgMsgs == 2
\* scenario SpecUpstream (provider events, one session): client commands
\* issued, provider messages delivered
UpCmds == 1
UpMsgs == 2

\* client connections (socket.io ids)
Clients == {1, 2}

\* an undefined lookup result
None == 0

\* ---------------------------------------------------- static tables
\* the language codes a command or a tool call may carry
Langs == {"en", "tr"}

\* the finalized-transcript events and the transcripts they may carry
TranscriptEvents == {"conversation.item.input_audio_transcription.completed",
                     "response.audio_transcript.done"}
Transcripts == {"t1"}

\* rows of the agent_names table, per language
AgentPool(l) ==
    CASE l = "en" -> {[name |-> "James", gender |-> "male"]}
      [] l = "tr" -> {[name |-> "Ayse", gender |-> "female"]}
      [] OTHER    -> {}

DefaultAgent == [name |-> "Assistant", gender |-> "female"]
NoAgent == [name |-> "", gender |-> ""]
PoolAgents == UNION {AgentPool(l) : l \in Langs}
Agents == PoolAgents \cup {DefaultAgent}

\* SupabaseService.getRandomAgent: a row of the pool, or the default persona
\* when the query fails or returns no rows
GetRandomAgent(l) == AgentPool(l) \cup {DefaultAgent}

getWhisperLanguage(l) == IF l \in {"tr", "en", "de", "ar", "fr", "ru"} THEN l ELSE "en"

\* a voice table with a single entry
getVoiceIgnoringGender(g) == "shimmer"

getVoiceForGender(g) == IF g = "male" THEN "echo" ELSE "shimmer"

\* ------------------------------------------------- patient info, lead score
\* An optional field of patientInfo is <<>> when undefined and <<v>> when set.
\* A treatment string is the sequence of its characters.
NoPatientInfo ==
    [fullName |-> <<>>, phone |-> <<>>, email |-> <<>>, age |-> <<>>,
     country |-> <<>>, city |-> <<>>, interestedTreatments |-> <<>>]

\* JavaScript truthiness of an optional string and of an optional number
TruthyString(f) == f # <<>> /\ f[1] # ""
TruthyNumber(f) == f # <<>> /\ f[1] # 0

UpperCase == <<"A", "B", "C", "D", "E", "F", "G", "H", "I", "J", "K", "L", "M",
               "N", "O", "P", "Q", "R", "S", "T", "U", "V", "W", "X", "Y", "Z">>
LowerCase == <<"a", "b", "c", "d", "e", "f", "g", "h", "i", "j", "k", "l", "m",
               "n", "o", "p", "q", "r", "s", "t", "u", "v", "w", "x", "y", "z">>

\* String.prototype.toLowerCase
toLowerCase(str) ==
    [i \in DOMAIN str |->
        IF \E k \in DOMAIN UpperCase : UpperCase[k] = str[i]
        THEN LowerCase[CHOOSE k \in DOMAIN UpperCase : UpperCase[k] = str[i]]
        ELSE str[i]]

\* String.prototype.includes
includes(str, sub) ==
    \E i \in 0..(Len(str) - Len(sub)) : SubSeq(str, i + 1, i + Len(sub)) = sub

highValueTreatments ==
    { <<"h", "a", "i", "r", " ", "t", "r", "a", "n", "s", "p", "l", "a", "n", "t">>,
      <<"d", "e", "n", "t", "a", "l">>,
      <<"b", "a", "r", "i", "a", "t", "r", "i", "c">>,
      <<"p", "l", "a", "s", "t", "i", "c", " ", "s", "u", "r", "g", "e", "r", "y">>,
      <<"r", "h", "i", "n", "o", "p", "l", "a", "s", "t", "y">> }

\* the number of user-role messages of a history
UserMessageCount(history) ==
    Cardinality({i \in DOMAIN history : history[i].role = "user"})

\* engagement points with the thresholds excluded
engagementScoreExclusive(messageCount) ==
    IF messageCount > 10 THEN 25
    ELSE IF messageCount > 5 THEN 15
    ELSE IF messageCount > 3 THEN 10
    ELSE IF messageCount > 1 THEN 5
    ELSE 0

\* calculateLeadScore: engagement points for the number of user messages
engagementScore(messageCount) ==
    IF messageCount >= 10 THEN 25
    ELSE IF messageCount >= 5 THEN 15
    ELSE IF messageCount >= 3 THEN 10
    ELSE IF messageCount >= 1 THEN 5
    ELSE 0

\* a status with the thresholds excluded
leadStatusExclusive(score) ==
    IF score > 70 THEN "hot" ELSE IF score > 40 THEN "warm" ELSE "cold"

\* calculateLeadScore: the status of a score
leadStatus(score) ==
    IF score >= 70 THEN "hot" ELSE IF score >= 40 THEN "warm" ELSE "cold"

\* VoiceService.calculateLeadScore
calculateLeadScore(ctx) ==
    LET info == ctx.patientInfo
        contact == (IF TruthyString(info.fullName) THEN 10 ELSE 0)
                 + (IF TruthyString(info.phone) THEN 15 ELSE 0)
                 + (IF TruthyString(info.email) THEN 5 ELSE 0)
        personal == (IF TruthyNumber(info.age) THEN 5 ELSE 0)
                  + (IF TruthyString(info.country) THEN 5 ELSE 0)
                  + (IF TruthyString(info.city) THEN 5 ELSE 0)
        list == info.interestedTreatments
        hasHighValue ==
            \E i \in DOMAIN list[1] : \E hv \in highValueTreatments :
               includes(toLowerCase(list[1][i]), hv)
        interest == IF list # <<>> /\ Len(list[1]) > 0
                    THEN 15 + (IF hasHighValue THEN 15 ELSE 0)
                    ELSE 0
        engagement == engagementScore(UserMessageCount(ctx.messageHistory))
        score == contact + personal + interest + engagement
    IN [score |-> score, status |-> leadStatus(score)]

\* no lead score computed yet
NoLead == [score |-> 0, status |-> ""]

\* endConversation's summary while it is undefined
NoSummary == <<>>

\* --------------------------------------------------------- variables
VARIABLES
    clients,              \* socket.io connection state of each client
    clientConversations,  \* VoiceGateway.clientConversations : client -> conversation id
    conversations,        \* keys of VoiceService.conversations (the registry)
    context,              \* the ConversationContext objects, by conversation id
    connections,          \* OpenAIRealtimeService.connections : conversation id -> socket
    ws,                   \* every provider WebSocket created, in creation order
    tasks,                \* suspended handler continuations and pending timers
    emitted,              \* client.emit calls, per client, in order
    nextId,               \* conversation rows created so far (ids are 1..nextId)
    quota,                \* what the environment may still do in this behaviour
    nodeEnv,              \* process.env.NODE_ENV
    conversationRows      \* what endConversation's final write stored, by conversation id

vars == <<clients, clientConversations, conversations, context, connections, ws,
          tasks, emitted, nextId, quota, nodeEnv, conversationRows>>

\* the state of the process
progVars == <<clientConversations, conversations, context, connections, ws,
              tasks, emitted, nextId>>

\* ------------------------------------------------------ Map helpers
Put(m, k, v) == [x \in (DOMAIN m) \cup {k} |-> IF x = k THEN v ELSE m[x]]
Del(m, k)    == [x \in (DOMAIN m) \ {k} |-> m[x]]
EmptyMap     == [x \in {} |-> None]

\* ------------------------------------------------------ records
Task(kind, client, conv, pc, lang, agent) ==
    [kind |-> kind, client |-> client, conv |-> conv, pc |-> pc,
     lang |-> lang, agent |-> agent, lead |-> NoLead, call_id |-> None,
     summary |-> NoSummary]

\* a message written to a provider socket
Msg(type, lang, voice, note) ==
    [type |-> type, lang |-> lang, voice |-> voice, note |-> note, call_id |-> None,
     error |-> ""]

\* the function_call_output item answering the tool call call_id
FunctionCallOutput(call_id, success) ==
    [Msg("conversation.item.create", "", "", IF success THEN "success" ELSE "failure")
        EXCEPT !.call_id = call_id]

\* the function_call_output item whose result is {success: false, error}
FunctionCallError(call_id, error) ==
    [FunctionCallOutput(call_id, FALSE) EXCEPT !.error = error]

\* an emitted event that carries no provider event
NoEvent == [type |-> "", payload |-> ""]

\* an event emitted to a client
Ev(type, conv, lang, agentName, payload) ==
    [type |-> type, conv |-> conv, lang |-> lang, agentName |-> agentName,
     payload |-> payload, event |-> NoEvent]

\* client.emit('debug_event', event): the provider's event as it was received
DebugEvent(type, payload) ==
    [Ev("debug_event", None, "", "", type) EXCEPT
        !.event = [type |-> type, payload |-> payload]]

Emit(E, c, ev) == [E EXCEPT ![c] = Append(@, ev)]

Spawn(T, t)  == T (+) SetToBag({t})
Finish(T, t) == T (-) SetToBag({t})
Pending      == BagToSet(tasks)

\* ---------------------------------------- OpenAIRealtimeService helpers
\* isConnected(conversationId), on a given state of the maps
isConnected(C, W, id) == id \in DOMAIN C /\ W[C[id]].readyState = "OPEN"

\* a sendEvent that writes to the socket created for the session without
\* consulting the live set or the socket's state
sendEventUnchecked(C, W, id, m) ==
    [w \in DOMAIN W |-> IF W[w].conv = id
                        THEN [W[w] EXCEPT !.out = Append(@, m)]
                        ELSE W[w]]

\* a sendEvent that hands the event to any registered socket, leaving it to
\* the transport to hold it until the socket opens
sendEventBuffering(C, W, id, m) ==
    IF id \in DOMAIN C /\ W[C[id]].readyState \in {"CONNECTING", "OPEN"}
    THEN [W EXCEPT ![C[id]].out = Append(@, m)]
    ELSE W

\* sendEvent(conversationId, event): written only to a registered OPEN socket
sendEvent(C, W, id, m) ==
    IF id \in DOMAIN C /\ W[C[id]].readyState = "OPEN"
    THEN [W EXCEPT ![C[id]].out = Append(@, m)]
    ELSE W

\* WebSocket.close(): a socket that is not CLOSED starts closing
wsClose(W, w) ==
    IF W[w].readyState \in {"CONNECTING", "OPEN"}
    THEN [W EXCEPT ![w].readyState = "CLOSING"]
    ELSE W

\* a closeSession that looks the socket up by its session and terminates one
\* that is already closing
closeSessionWsForcing(C, W, id) ==
    [w \in DOMAIN W |->
        IF W[w].conv = id
        THEN [W[w] EXCEPT !.readyState =
                 IF @ \in {"CONNECTING", "OPEN"} THEN "CLOSING" ELSE "CLOSED"]
        ELSE W[w]]

\* closeSession(conversationId): the sockets after the call, and the live set
closeSessionWs(C, W, id) == IF id \in DOMAIN C THEN wsClose(W, C[id]) ELSE W
closeSessionConns(C, id) == IF id \in DOMAIN C THEN Del(C, id) ELSE C

\* updateSessionLanguage: a session.update for the context's language and voice
updateSessionLanguage(C, W, id, ctx) ==
    sendEvent(C, W, id, Msg("session.update", getWhisperLanguage(ctx.language),
                            getVoiceForGender(ctx.agentGender), "reconfigure"))

\* a forwarder whose diagnostics channel is open in every environment but
\* production
forwardEventToClientUnlessProduction(E, c, type, payload) ==
    CASE type = "response.audio.delta" -> Emit(E, c, Ev("audio_delta", None, "", "", payload))
      [] type = "conversation.item.input_audio_transcription.completed" ->
             Emit(E, c, Ev("user_transcript", None, "", "", payload))
      [] type = "response.audio_transcript.done" ->
             Emit(E, c, Ev("transcript_done", None, "", "", payload))
      [] type = "error" -> Emit(E, c, Ev("error", None, "", "", "Unknown error"))
      [] type = "session.closed" -> Emit(E, c, Ev("session_closed", None, "", "", ""))
      [] type = "rate_limits.updated" -> E
      [] OTHER -> IF nodeEnv # "production"
                  THEN Emit(E, c, DebugEvent(type, payload))
                  ELSE E

\* forwardEventToClient on a provider event of the given type
forwardEventToClient(E, c, type, payload) ==
    CASE type = "response.audio.delta" -> Emit(E, c, Ev("audio_delta", None, "", "", payload))
      [] type = "conversation.item.input_audio_transcription.completed" ->
             Emit(E, c, Ev("user_transcript", None, "", "", payload))
      [] type = "response.audio_transcript.done" ->
             Emit(E, c, Ev("transcript_done", None, "", "", payload))
      [] type = "error" -> Emit(E, c, Ev("error", None, "", "", "Unknown error"))
      [] type = "session.closed" -> Emit(E, c, Ev("session_closed", None, "", "", ""))
      [] type = "rate_limits.updated" -> E
      [] OTHER -> IF nodeEnv = "development"
                  THEN Emit(E, c, DebugEvent(type, payload))
                  ELSE E

\* ------------------------------------------------------------- Init
Boot(q, env) ==
    /\ clients = [c \in Clients |-> "new"]
    /\ clientConversations = EmptyMap
    /\ conversations = {}
    /\ context = EmptyMap
    /\ connections = EmptyMap
    /\ ws = <<>>
    /\ tasks = EmptyBag
    /\ emitted = [c \in Clients |-> <<>>]
    /\ nextId = 0
    /\ quota = q
    /\ nodeEnv \in env
    /\ conversationRows = EmptyMap

Quota(cmds, convs, msgs) ==
    [cmds |-> cmds, convs |-> convs, msgs |-> msgs, signals |-> 0]

Init == Boot(Quota(MaxCmds, MaxConv, 0), {"production"})

\* ------------------------------------------------- Session Gateway
\* handleConnection: logs only
HandleConnection(c) ==
    /\ clients[c] = "new"
    /\ clients' = [clients EXCEPT ![c] = "connected"]
    /\ UNCHANGED <<progVars, quota, nodeEnv, conversationRows>>

\* a command arrives from a connected client
Command(c) ==
    /\ clients[c] = "connected"
    /\ quota.cmds > 0
    /\ quota' = [quota EXCEPT !.cmds = @ - 1]
    /\ UNCHANGED <<clients, nodeEnv, conversationRows>>

\* handleStartConversation up to initializeConversation's awaits.  The first,
\* getRandomAgent, only reads the Profile Store and nothing of the process is
\* read or written before the second, createConversation, is awaited: the two
\* are one suspension, resumed by StartConversationCreated/Failed.
HandleStartConversation(c, l) ==
    /\ Command(c)
    /\ tasks' = Spawn(tasks, Task("start", c, None, "initializeConversation",
                                  IF l = "" THEN "en" ELSE l, NoAgent))
    /\ UNCHANGED <<clientConversations, conversations, context, connections, ws,
                   emitted, nextId>>

\* a Profile Store that hands out the id of the latest row again
ReusedConversationId == IF nextId = 0 THEN 1 ELSE nextId

\* the id of the row a successful createConversation inserts
NewConversationId == nextId + 1

\* OpenAIRealtimeService.createSession: a new socket, registered under the id
createSessionWs(W, id, c) ==
    Append(W, [conv |-> id, client |-> c, readyState |-> "CONNECTING",
               hasGreeted |-> FALSE, out |-> <<>>, calls |-> 0, inbound |-> <<>>])

\* getRandomAgent returned a, createConversation resolves: the context is
\* registered, the client bound, the provider socket created,
\* conversation_started emitted, the gateway's greeting timer armed
StartConversationCreated(t, a) ==
    /\ t \in Pending /\ t.kind = "start"
    /\ a \in GetRandomAgent(t.lang)
    /\ quota.convs > 0
    /\ quota' = [quota EXCEPT !.convs = @ - 1]
    /\ LET id == NewConversationId
           ctx == [agentName |-> a.name, agentGender |-> a.gender,
                   language |-> t.lang, patientInfo |-> NoPatientInfo,
                   patientId |-> None,
                   messageHistory |-> <<>>]
       IN /\ nextId' = nextId + 1
          /\ context' = Put(context, id, ctx)
          /\ conversations' = conversations \cup {id}
          /\ clientConversations' = Put(clientConversations, t.client, id)
          /\ ws' = createSessionWs(ws, id, t.client)
          /\ connections' = Put(connections, id, Len(ws) + 1)
          /\ emitted' = Emit(emitted, t.client,
                             Ev("conversation_started", id, ctx.language, ctx.agentName, ""))
          /\ tasks' = Spawn(Finish(tasks, t),
                            Task("gatewayGreeting", t.client, id, "timer", "", NoAgent))
    /\ UNCHANGED <<clients, nodeEnv, conversationRows>>

\* a handler that emits conversation_started before the record is created
\* and reports the failure afterwards
StartConversationFailedAnnounced(t) ==
    /\ t \in Pending /\ t.kind = "start"
    /\ emitted' = Emit(Emit(emitted, t.client,
                            Ev("conversation_started", None, t.lang, "", "")),
                       t.client, Ev("error", None, "", "", "Failed to start conversation"))
    /\ tasks' = Finish(tasks, t)
    /\ UNCHANGED <<clients, clientConversations, conversations, context, connections,
                   ws, nextId, quota, nodeEnv, conversationRows>>

\* createConversation rejects: caught by the handler, which emits an error
StartConversationFailed(t) ==
    /\ t \in Pending /\ t.kind = "start"
    /\ emitted' = Emit(emitted, t.client,
                       Ev("error", None, "", "", "Failed to start conversation"))
    /\ tasks' = Finish(tasks, t)
    /\ UNCHANGED <<clients, clientConversations, conversations, context, connections,
                   ws, nextId, quota, nodeEnv, conversationRows>>

\* ---- ending a session: VoiceService.endConversation inside
\* ---- handleEndConversation (kind "end") and handleDisconnect (kind "disconnect")

\* what follows `await endConversation(id)` in both handlers: closeSession,
\* the binding of this client deleted, and conversation_ended for "end"
EndTail(kind, c, id) ==
    /\ ws' = closeSessionWs(connections, ws, id)
    /\ connections' = closeSessionConns(connections, id)
    /\ clientConversations' = Del(clientConversations, c)
    /\ emitted' = IF kind = "end"
                  THEN Emit(emitted, c, Ev("conversation_ended", id, "", "", ""))
                  ELSE emitted

\* a handler that does not guard the lookup of the binding: the missing
\* session surfaces as an error event
BeginEndUnguarded(kind, c) ==
    IF c \notin DOMAIN clientConversations
    THEN /\ emitted' = Emit(emitted, c, Ev("error", None, "", "", "Unknown error"))
         /\ UNCHANGED <<clientConversations, conversations, context, connections, ws,
                        tasks, nextId>>
    ELSE LET id == clientConversations[c] IN
         IF id \in conversations
         THEN /\ tasks' = Spawn(tasks,
                    IF Len(context[id].messageHistory) > 0
                    THEN Task(kind, c, id, "generateConversationSummary", "", NoAgent)
                    ELSE [Task(kind, c, id, "updateConversation", "", NoAgent)
                             EXCEPT !.lead = calculateLeadScore(context[id])])
              /\ UNCHANGED <<clientConversations, conversations, context, connections,
                             ws, emitted, nextId>>
         ELSE /\ EndTail(kind, c, id)
              /\ UNCHANGED <<conversations, context, tasks, nextId>>

\* the handler from its lookup of the binding to endConversation's first await
BeginEnd(kind, c) ==
    IF c \notin DOMAIN clientConversations
    THEN UNCHANGED progVars
    ELSE LET id == clientConversations[c] IN
         IF id \in conversations
         THEN /\ tasks' = Spawn(tasks,
                    IF Len(context[id].messageHistory) > 0
                    THEN Task(kind, c, id, "generateConversationSummary", "", NoAgent)
                    ELSE [Task(kind, c, id, "updateConversation", "", NoAgent)
                             EXCEPT !.lead = calculateLeadScore(context[id])])
              /\ UNCHANGED <<clientConversations, conversations, context, connections,
                             ws, emitted, nextId>>
         ELSE /\ EndTail(kind, c, id)
              /\ UNCHANGED <<conversations, context, tasks, nextId>>

HandleEndConversation(c) ==
    /\ Command(c)
    /\ BeginEnd("end", c)

HandleDisconnect(c) ==
    /\ clients[c] = "connected"
    /\ clients' = [clients EXCEPT ![c] = "gone"]
    /\ BeginEnd("disconnect", c)
    /\ UNCHANGED <<quota, nodeEnv, conversationRows>>

Ending(t) == t \in Pending /\ t.kind \in {"end", "disconnect"}

\* endConversation after its summary step: the lead score is computed and the
\* final updateConversation, carrying the summary, is awaited
EndSummary(t, summary) ==
    /\ Ending(t) /\ t.pc = "generateConversationSummary"
    /\ tasks' = Spawn(Finish(tasks, t),
                      [t EXCEPT !.pc = "updateConversation",
                                !.lead = calculateLeadScore(context[t.conv]),
                                !.summary = summary])
    /\ UNCHANGED <<clients, clientConversations, conversations, context, connections,
                   ws, emitted, nextId, quota, nodeEnv, conversationRows>>

\* generateConversationSummary returns the model's text
EndSummaryResolved(t) == EndSummary(t, <<"Patient asked about dental implants.">>)

\* a failed summary that escapes endConversation: the handler throws before
\* the final write
EndSummaryRejectedThrows(t) ==
    /\ Ending(t) /\ t.pc = "generateConversationSummary"
    /\ tasks' = Finish(tasks, t)
    /\ UNCHANGED <<clients, clientConversations, conversations, context, connections,
                   ws, emitted, nextId, quota, nodeEnv, conversationRows>>

\* generateConversationSummary throws: the error is caught and logged and the
\* summary stays undefined
EndSummaryRejected(t) == EndSummary(t, NoSummary)

\* generateConversationSummary settles either way
EndSummarySettled(t) == EndSummaryResolved(t) \/ EndSummaryRejected(t)

\* the final updateConversation resolves: the session leaves the registry and
\* the handler goes on to close and unbind
EndUpdateResolved(t) ==
    /\ Ending(t) /\ t.pc = "updateConversation"
    /\ conversations' = conversations \ {t.conv}
    /\ EndTail(t.kind, t.client, t.conv)
    /\ tasks' = Finish(tasks, t)
    /\ conversationRows' = Put(conversationRows, t.conv,
                               [status |-> "completed", ended_at |-> TRUE,
                                summary |-> t.summary, lead_score |-> t.lead.score,
                                lead_status |-> t.lead.status])
    /\ UNCHANGED <<clients, context, nextId, quota, nodeEnv>>

\* the final updateConversation rejects: endConversation throws, and so does
\* the handler, before conversations.delete, closeSession and the unbinding
EndUpdateRejected(t) ==
    /\ Ending(t) /\ t.pc = "updateConversation"
    /\ tasks' = Finish(tasks, t)
    /\ UNCHANGED <<clients, clientConversations, conversations, context, connections,
                   ws, emitted, nextId, quota, nodeEnv, conversationRows>>

\* ---- pass-through commands
HandleAudioData(c) ==
    /\ Command(c)
    /\ ws' = IF c \in DOMAIN clientConversations
                /\ isConnected(connections, ws, clientConversations[c])
             THEN sendEvent(connections, ws, clientConversations[c],
                            Msg("input_audio_buffer.append", "", "", ""))
             ELSE ws
    /\ UNCHANGED <<clientConversations, conversations, context, connections, tasks,
                   emitted, nextId>>

HandleAudioCommit(c) ==
    /\ Command(c)
    /\ ws' = IF c \in DOMAIN clientConversations
             THEN sendEvent(connections, ws, clientConversations[c],
                            Msg("input_audio_buffer.commit", "", "", ""))
             ELSE ws
    /\ UNCHANGED <<clientConversations, conversations, context, connections, tasks,
                   emitted, nextId>>

HandleInterrupt(c) ==
    /\ Command(c)
    /\ ws' = IF c \in DOMAIN clientConversations
             THEN sendEvent(connections, ws, clientConversations[c],
                            Msg("response.cancel", "", "", ""))
             ELSE ws
    /\ UNCHANGED <<clientConversations, conversations, context, connections, tasks,
                   emitted, nextId>>

\* ---- update_language and the detect_language tool: both run
\* ---- VoiceService.updateConversationLanguage (kinds "update_language",
\* ---- "detect_language")

\* what handleUpdateLanguage does after `await updateConversationLanguage`
UpdateLanguageTail(c, id, l) ==
    IF id \in conversations
    THEN /\ ws' = updateSessionLanguage(connections, ws, id, context[id])
         /\ emitted' = Emit(emitted, c,
                            Ev("language_updated", None, l, context[id].agentName, ""))
    ELSE UNCHANGED <<ws, emitted>>

\* a handler that acknowledges the language without looking up the binding
HandleUpdateLanguageUnbound(c, l) ==
    /\ Command(c)
    /\ emitted' = Emit(emitted, c, Ev("language_updated", None, l, "", ""))
    /\ UNCHANGED <<clientConversations, conversations, context, connections, ws,
                   tasks, nextId>>

HandleUpdateLanguage(c, l) ==
    /\ Command(c)
    /\ IF c \notin DOMAIN clientConversations
       THEN UNCHANGED progVars
       ELSE LET id == clientConversations[c] IN
            IF id \in conversations /\ context[id].language # l
            THEN /\ tasks' = Spawn(tasks, Task("update_language", c, id,
                                               "getRandomAgent", l, NoAgent))
                 /\ UNCHANGED <<clientConversations, conversations, context,
                                connections, ws, emitted, nextId>>
            ELSE /\ UpdateLanguageTail(c, id, l)
                 /\ UNCHANGED <<clientConversations, conversations, context,
                                connections, tasks, nextId>>

UpdatingLanguage(t) == t \in Pending /\ t.kind \in {"update_language", "detect_language"}

\* getRandomAgent resolves inside updateConversationLanguage: the context
\* object takes the new language and persona, then updateConversation is awaited
UpdateLanguageAgentResolved(t, a) ==
    /\ UpdatingLanguage(t) /\ t.pc = "getRandomAgent"
    /\ a \in GetRandomAgent(t.lang)
    /\ context' = [context EXCEPT ![t.conv].language = t.lang,
                                  ![t.conv].agentName = a.name,
                                  ![t.conv].agentGender = a.gender]
    /\ tasks' = Spawn(Finish(tasks, t), [t EXCEPT !.pc = "updateConversation", !.agent = a])
    /\ UNCHANGED <<clients, clientConversations, conversations, connections, ws,
                   emitted, nextId, quota, nodeEnv, conversationRows>>

\* the end of handleFunctionCall: the function result, then response.create
\* a tool handler that returns the result without asking for a continuation
sendFunctionOutputOnly(C, W, id, item) == sendEvent(C, W, id, item)

sendFunctionOutput(C, W, id, item) ==
    sendEvent(C, sendEvent(C, W, id, item), id, Msg("response.create", "", "", "continue"))

sendFunctionResult(C, W, id, call_id, success) ==
    sendFunctionOutput(C, W, id, FunctionCallOutput(call_id, success))

\* error.message of a rejected Profile Store write
PersistenceError == "PersistenceError"

\* the detect_language branch of handleFunctionCall after a resolved
\* updateConversationLanguage: reconfigure if the session is still registered
detectLanguageReconfigure(C, W, id) ==
    IF id \in conversations
    THEN updateSessionLanguage(C, W, id, context[id])
    ELSE W

\* updateConversation resolves inside updateConversationLanguage
UpdateLanguageResolved(t) ==
    /\ UpdatingLanguage(t) /\ t.pc = "updateConversation"
    /\ tasks' = Finish(tasks, t)
    /\ IF t.kind = "update_language"
       THEN UpdateLanguageTail(t.client, t.conv, t.lang)
       ELSE /\ ws' = sendFunctionResult(connections,
                        detectLanguageReconfigure(connections, ws, t.conv),
                        t.conv, t.call_id, TRUE)
            /\ emitted' = forwardEventToClient(emitted, t.client,
                              "response.function_call_arguments.done", "")
    /\ UNCHANGED <<clients, clientConversations, conversations, context, connections,
                   nextId, quota, nodeEnv, conversationRows>>

\* updateConversation rejects: handleUpdateLanguage throws; handleFunctionCall
\* catches and reports a failure result
UpdateLanguageRejected(t) ==
    /\ UpdatingLanguage(t) /\ t.pc = "updateConversation"
    /\ tasks' = Finish(tasks, t)
    /\ IF t.kind = "update_language"
       THEN UNCHANGED <<ws, emitted>>
       ELSE /\ ws' = sendFunctionOutput(connections, ws, t.conv,
                                         FunctionCallError(t.call_id, PersistenceError))
            /\ emitted' = forwardEventToClient(emitted, t.client,
                              "response.function_call_arguments.done", "")
    /\ UNCHANGED <<clients, clientConversations, conversations, context, connections,
                   nextId, quota, nodeEnv, conversationRows>>

\* ---------------------------------------- Upstream Realtime Client
\* a client that reconnects: a socket that has closed is opened and
\* registered again
WsOpenReconnecting(w) ==
    /\ w \in DOMAIN ws /\ ws[w].readyState \in {"CONNECTING", "CLOSED"}
    /\ connections' = Put(connections, ws[w].conv, w)
    /\ LET W == [ws EXCEPT ![w].readyState = "OPEN"]
           ctx == context[ws[w].conv]
       IN ws' = sendEvent(connections', W, ws[w].conv,
                          Msg("session.update", getWhisperLanguage(ctx.language),
                              getVoiceForGender(ctx.agentGender), "initial"))
    /\ UNCHANGED <<clients, clientConversations, conversations, context,
                   tasks, emitted, nextId, quota, nodeEnv, conversationRows>>

\* ws 'open': the initial session.update, built from the captured context
WsOpen(w) ==
    /\ w \in DOMAIN ws /\ ws[w].readyState = "CONNECTING"
    /\ LET W == [ws EXCEPT ![w].readyState = "OPEN"]
           ctx == context[ws[w].conv]
       IN ws' = sendEvent(connections, W, ws[w].conv,
                          Msg("session.update", getWhisperLanguage(ctx.language),
                              getVoiceForGender(ctx.agentGender), "initial"))
    /\ UNCHANGED <<clients, clientConversations, conversations, context, connections,
                   tasks, emitted, nextId, quota, nodeEnv, conversationRows>>

\* a close handler that also ends the session: the registry entry and the
\* client's binding are removed
WsCloseEnding(w, err) ==
    /\ w \in DOMAIN ws /\ ws[w].readyState # "CLOSED"
    /\ ws' = [ws EXCEPT ![w].readyState = "CLOSED"]
    /\ connections' = Del(connections, ws[w].conv)
    /\ conversations' = conversations \ {ws[w].conv}
    /\ clientConversations' = Del(clientConversations, ws[w].client)
    /\ emitted' = forwardEventToClient(
                      IF err THEN forwardEventToClient(emitted, ws[w].client, "error", "")
                      ELSE emitted,
                      ws[w].client, "session.closed", "")
    /\ UNCHANGED <<clients, context, tasks, nextId, quota, nodeEnv, conversationRows>>

\* ws 'close', after an 'error' when err: the live-set entry of the id is
\* deleted and session.closed forwarded
WsClose(w, err) ==
    /\ w \in DOMAIN ws /\ ws[w].readyState # "CLOSED"
    /\ ws' = [ws EXCEPT ![w].readyState = "CLOSED"]
    /\ connections' = Del(connections, ws[w].conv)
    /\ emitted' = forwardEventToClient(
                      IF err THEN forwardEventToClient(emitted, ws[w].client, "error", "")
                      ELSE emitted,
                      ws[w].client, "session.closed", "")
    /\ UNCHANGED <<clients, clientConversations, conversations, context, tasks,
                   nextId, quota, nodeEnv, conversationRows>>

\* a provider message is delivered on an open socket
Delivered(w) ==
    /\ w \in DOMAIN ws /\ ws[w].readyState = "OPEN"
    /\ quota.msgs > 0
    /\ quota' = [quota EXCEPT !.msgs = @ - 1]
    /\ UNCHANGED <<clients, nodeEnv, conversationRows>>

\* session.updated: the first one arms the greeting timer
WsSessionUpdated(w) ==
    /\ Delivered(w)
    /\ IF ~ws[w].hasGreeted
       THEN /\ ws' = [ws EXCEPT ![w].hasGreeted = TRUE]
            /\ tasks' = Spawn(tasks, Task("greeting", ws[w].client, ws[w].conv,
                                          "timer", "", NoAgent))
       ELSE UNCHANGED <<ws, tasks>>
    /\ emitted' = forwardEventToClient(emitted, ws[w].client, "session.updated", "")
    /\ UNCHANGED <<clientConversations, conversations, context, connections, nextId>>

\* response.function_call_arguments.done: the provider gives each tool call
\* of a socket its own call_id (here the call's number on the socket)
call_id(w) == ws[w].calls + 1
Called(W, w) == [W EXCEPT ![w].calls = @ + 1]

\* handleFunctionCall suspended at an await of the named tool
ToolTask(name, w, pc, arg) ==
    [Task(name, ws[w].client, ws[w].conv, pc, arg, NoAgent) EXCEPT !.call_id = call_id(w)]

\* the tool handler without the comparison to the current language: the
\* session is reconfigured on every call
WsDetectLanguageAlways(w, l) ==
    /\ Delivered(w)
    /\ LET id == ws[w].conv IN
       IF id \notin conversations
       THEN /\ emitted' = forwardEventToClient(emitted, ws[w].client,
                              "response.function_call_arguments.done", "")
            /\ ws' = Called(ws, w)
            /\ UNCHANGED tasks
       ELSE IF l # context[id].language
       THEN /\ tasks' = Spawn(tasks, ToolTask("detect_language", w, "getRandomAgent", l))
            /\ ws' = Called(ws, w)
            /\ UNCHANGED emitted
       ELSE /\ ws' = sendFunctionResult(connections,
                        detectLanguageReconfigure(connections, Called(ws, w), id),
                        id, call_id(w), TRUE)
            /\ emitted' = forwardEventToClient(emitted, ws[w].client,
                              "response.function_call_arguments.done", "")
            /\ UNCHANGED tasks
    /\ UNCHANGED <<clientConversations, conversations, context, connections, nextId>>

\* response.function_call_arguments.done for detect_language{language: l}
WsDetectLanguage(w, l) ==
    /\ Delivered(w)
    /\ LET id == ws[w].conv IN
       IF id \notin conversations
       THEN /\ emitted' = forwardEventToClient(emitted, ws[w].client,
                              "response.function_call_arguments.done", "")
            /\ ws' = Called(ws, w)
            /\ UNCHANGED tasks
       ELSE IF l # context[id].language
       THEN /\ tasks' = Spawn(tasks, ToolTask("detect_language", w, "getRandomAgent", l))
            /\ ws' = Called(ws, w)
            /\ UNCHANGED emitted
       ELSE /\ ws' = sendFunctionResult(connections, Called(ws, w), id, call_id(w), TRUE)
            /\ emitted' = forwardEventToClient(emitted, ws[w].client,
                              "response.function_call_arguments.done", "")
            /\ UNCHANGED tasks
    /\ UNCHANGED <<clientConversations, conversations, context, connections, nextId>>

\* ---- the other tool calls
\* handleFunctionCall returns: the result item and response.create are sent,
\* then the message handler forwards the event
ToolReturns(t, item) ==
    /\ ws' = sendFunctionOutput(connections, ws, t.conv, item)
    /\ emitted' = forwardEventToClient(emitted, t.client,
                                       "response.function_call_arguments.done", "")

\* an update that replaces the draft wholesale by the given fields
replacePatientInfo(info, args) == args

\* { ...context.patientInfo, ...patientInfo }
mergePatientInfo(info, args) ==
    [f \in DOMAIN info |-> IF args[f] = <<>> THEN info[f] ELSE args[f]]

\* response.function_call_arguments.done for update_patient_info{args}: the
\* draft is merged; with a name or a phone the patient row is written
WsUpdatePatientInfo(w, args) ==
    /\ Delivered(w)
    /\ LET id == ws[w].conv IN
       IF id \notin conversations
       THEN /\ emitted' = forwardEventToClient(emitted, ws[w].client,
                              "response.function_call_arguments.done", "")
            /\ ws' = Called(ws, w)
            /\ UNCHANGED <<context, tasks>>
       ELSE LET info == mergePatientInfo(context[id].patientInfo, args) IN
            /\ context' = [context EXCEPT ![id].patientInfo = info]
            /\ IF TruthyString(info.fullName) \/ TruthyString(info.phone)
               THEN /\ tasks' = Spawn(tasks,
                          ToolTask("update_patient_info", w,
                                   IF context[id].patientId # None
                                   THEN "updatePatient" ELSE "createPatient", ""))
                    /\ ws' = Called(ws, w)
                    /\ UNCHANGED emitted
               ELSE /\ ws' = sendFunctionResult(connections, Called(ws, w), id,
                                                call_id(w), TRUE)
                    /\ emitted' = forwardEventToClient(emitted, ws[w].client,
                                      "response.function_call_arguments.done", "")
                    /\ UNCHANGED tasks
    /\ UNCHANGED <<clientConversations, conversations, connections, nextId>>

UpdatingPatient(t) == t \in Pending /\ t.kind = "update_patient_info"

\* createPatient resolves: the context takes the row's id (rows are numbered
\* here by the call that created them) and the conversation row is linked
PatientCreated(t) ==
    /\ UpdatingPatient(t) /\ t.pc = "createPatient"
    /\ context' = [context EXCEPT ![t.conv].patientId = t.call_id]
    /\ tasks' = Spawn(Finish(tasks, t), [t EXCEPT !.pc = "updateConversation"])
    /\ UNCHANGED <<clients, clientConversations, conversations, connections, ws,
                   emitted, nextId, quota, nodeEnv, conversationRows>>

\* updatePatient, or the updateConversation that links the row, resolves
PatientWriteResolved(t) ==
    /\ UpdatingPatient(t) /\ t.pc \in {"updatePatient", "updateConversation"}
    /\ tasks' = Finish(tasks, t)
    /\ ToolReturns(t, FunctionCallOutput(t.call_id, TRUE))
    /\ UNCHANGED <<clients, clientConversations, conversations, context, connections,
                   nextId, quota, nodeEnv, conversationRows>>

\* an updatePatientInfo without the try/catch: the rejection reaches
\* handleFunctionCall's catch, which reports the failure
PatientWriteRejectedReported(t) ==
    /\ UpdatingPatient(t)
    /\ tasks' = Finish(tasks, t)
    /\ ToolReturns(t, FunctionCallError(t.call_id, PersistenceError))
    /\ UNCHANGED <<clients, clientConversations, conversations, context, connections,
                   nextId, quota, nodeEnv, conversationRows>>

\* any of the three writes rejects: updatePatientInfo's catch logs, and the
\* tool still reports success
PatientWriteRejected(t) ==
    /\ UpdatingPatient(t)
    /\ tasks' = Finish(tasks, t)
    /\ ToolReturns(t, FunctionCallOutput(t.call_id, TRUE))
    /\ UNCHANGED <<clients, clientConversations, conversations, context, connections,
                   nextId, quota, nodeEnv, conversationRows>>

\* what handleFunctionCall and the message handler do on a call that fails
\* before any await
ToolFails(w, error) ==
    /\ Delivered(w)
    /\ LET id == ws[w].conv IN
       ws' = IF id \in conversations
             THEN sendFunctionOutput(connections, Called(ws, w), id,
                                     FunctionCallError(call_id(w), error))
             ELSE Called(ws, w)
    /\ emitted' = forwardEventToClient(emitted, ws[w].client,
                                       "response.function_call_arguments.done", "")
    /\ UNCHANGED <<clientConversations, conversations, context, connections, tasks,
                   nextId>>

\* a tool handler that lets the failure escape: the message handler's catch
\* logs it, nothing is returned and the event is not forwarded
WsUnknownFunctionThrows(w) ==
    /\ Delivered(w)
    /\ ws' = Called(ws, w)
    /\ UNCHANGED <<clientConversations, conversations, context, connections, tasks,
                   emitted, nextId>>

\* the tools the session is configured with
ToolNames == {"update_patient_info", "detect_language"}

\* response.function_call_arguments.done naming no tool of the switch
WsUnknownFunction(w) == ToolFails(w, "Unknown function")

\* response.function_call_arguments.done whose arguments JSON.parse rejects,
\* whatever the tool named
WsUnparseableArguments(w, name) == ToolFails(w, "SyntaxError")

\* the finalized-transcript events: addMessage pushes and awaits the write
TranscriptRole(type) ==
    IF type = "conversation.item.input_audio_transcription.completed"
    THEN "user" ELSE "assistant"

\* an addMessage that puts the newest message first
WsTranscriptNewestFirst(w, type, text) ==
    /\ Delivered(w)
    /\ LET id == ws[w].conv IN
       IF id \in conversations
       THEN /\ context' = [context EXCEPT ![id].messageHistory =
                              <<[role |-> TranscriptRole(type), content |-> text]>> \o @]
            /\ tasks' = Spawn(tasks, Task("addMessage", ws[w].client, id, type, text, NoAgent))
            /\ UNCHANGED emitted
       ELSE /\ emitted' = forwardEventToClient(emitted, ws[w].client, type, text)
            /\ UNCHANGED <<context, tasks>>
    /\ UNCHANGED <<clientConversations, conversations, connections, ws, nextId>>

WsTranscript(w, type, text) ==
    /\ Delivered(w)
    /\ LET id == ws[w].conv IN
       IF id \in conversations
       THEN /\ context' = [context EXCEPT ![id].messageHistory =
                              Append(@, [role |-> TranscriptRole(type), content |-> text])]
            /\ tasks' = Spawn(tasks, Task("addMessage", ws[w].client, id, type, text, NoAgent))
            /\ UNCHANGED emitted
       ELSE /\ emitted' = forwardEventToClient(emitted, ws[w].client, type, text)
            /\ UNCHANGED <<context, tasks>>
    /\ UNCHANGED <<clientConversations, conversations, connections, ws, nextId>>

\* addConversationMessage resolves: the event is forwarded
AddMessageResolved(t) ==
    /\ t \in Pending /\ t.kind = "addMessage"
    /\ tasks' = Finish(tasks, t)
    /\ emitted' = forwardEventToClient(emitted, t.client, t.pc, t.lang)
    /\ UNCHANGED <<clients, clientConversations, conversations, context, connections,
                   ws, nextId, quota, nodeEnv, conversationRows>>

\* addConversationMessage rejects: the message handler's catch logs, and the
\* event is not forwarded
AddMessageRejected(t) ==
    /\ t \in Pending /\ t.kind = "addMessage"
    /\ tasks' = Finish(tasks, t)
    /\ UNCHANGED <<clients, clientConversations, conversations, context, connections,
                   ws, emitted, nextId, quota, nodeEnv, conversationRows>>

\* ---- audio deltas and malformed messages
\* the message is entered in the socket's inbound history, with the number of
\* messages written to the socket before it arrived
Received(W, w, type, payload) ==
    [W EXCEPT ![w].inbound =
        Append(@, [type |-> type, payload |-> payload, after |-> Len(W[w].out)])]

\* a forwarder that folds a delta into the audio_delta emitted just before it
WsAudioDeltaCoalescing(w, delta) ==
    /\ Delivered(w)
    /\ ws' = Received(ws, w, "response.audio.delta", delta)
    /\ LET E == emitted[ws[w].client] IN
       emitted' = IF E # <<>> /\ E[Len(E)].type = "audio_delta"
                  THEN emitted
                  ELSE forwardEventToClient(emitted, ws[w].client,
                                            "response.audio.delta", delta)
    /\ UNCHANGED <<clientConversations, conversations, context, connections, tasks,
                   nextId>>

\* a forwarder that drops the deltas arriving after a response.cancel
WsAudioDeltaCancelled(w, delta) ==
    /\ Delivered(w)
    /\ ws' = Received(ws, w, "response.audio.delta", delta)
    /\ emitted' = IF \E i \in DOMAIN ws[w].out : ws[w].out[i].type = "response.cancel"
                  THEN emitted
                  ELSE forwardEventToClient(emitted, ws[w].client,
                                            "response.audio.delta", delta)
    /\ UNCHANGED <<clientConversations, conversations, context, connections, tasks,
                   nextId>>

\* response.audio.delta: nothing is awaited before onEvent(event)
WsAudioDelta(w, delta) ==
    /\ Delivered(w)
    /\ ws' = Received(ws, w, "response.audio.delta", delta)
    /\ emitted' = forwardEventToClient(emitted, ws[w].client,
                                       "response.audio.delta", delta)
    /\ UNCHANGED <<clientConversations, conversations, context, connections, tasks,
                   nextId>>

\* a message handler without the try/catch: the parse error ends the socket
WsMalformedFatal(w) ==
    /\ Delivered(w)
    /\ ws' = [Received(ws, w, "malformed", "") EXCEPT ![w].readyState = "CLOSED"]
    /\ connections' = Del(connections, ws[w].conv)
    /\ emitted' = forwardEventToClient(emitted, ws[w].client, "session.closed", "")
    /\ UNCHANGED <<clientConversations, conversations, context, tasks, nextId>>

\* a message that is not JSON: JSON.parse throws inside the handler's try,
\* the catch logs
WsMalformed(w) ==
    /\ Delivered(w)
    /\ ws' = Received(ws, w, "malformed", "")
    /\ UNCHANGED <<clientConversations, conversations, context, connections, tasks,
                   emitted, nextId>>

\* a provider event of a type neither the service nor the gateway handles
UnrecognizedTypes == {"session.created", "conversation.item.created"}

WsUnrecognized(w, type, payload) ==
    /\ Delivered(w)
    /\ ws' = Received(ws, w, type, payload)
    /\ emitted' = forwardEventToClient(emitted, ws[w].client, type, payload)
    /\ UNCHANGED <<clientConversations, conversations, context, connections, tasks,
                   nextId>>

\* rate_limits.updated: recognized by the gateway, which emits nothing for it
WsRateLimits(w) ==
    /\ Delivered(w)
    /\ ws' = Received(ws, w, "rate_limits.updated", "")
    /\ emitted' = forwardEventToClient(emitted, ws[w].client, "rate_limits.updated", "")
    /\ UNCHANGED <<clientConversations, conversations, context, connections, tasks,
                   nextId>>

\* ---- timers
\* the gateway's setTimeout(500): a bare response.create
GatewayGreetingTimer(t) ==
    /\ t \in Pending /\ t.kind = "gatewayGreeting"
    /\ tasks' = Finish(tasks, t)
    /\ ws' = sendEvent(connections, ws, t.conv, Msg("response.create", "", "", "gateway"))
    /\ UNCHANGED <<clients, clientConversations, conversations, context, connections,
                   emitted, nextId, quota, nodeEnv, conversationRows>>

\* triggerInitialGreeting: response.create carrying the greeting instructions
triggerInitialGreeting(C, W, id) ==
    sendEvent(C, W, id, Msg("response.create", context[id].language, "", "greeting"))

\* a greeting that is also entered in the history and persisted as a message
GreetingTimerRecorded(t) ==
    /\ t \in Pending /\ t.kind = "greeting"
    /\ ws' = IF isConnected(connections, ws, t.conv)
             THEN triggerInitialGreeting(connections, ws, t.conv)
             ELSE ws
    /\ context' = IF isConnected(connections, ws, t.conv)
                  THEN [context EXCEPT ![t.conv].messageHistory =
                           Append(@, [role |-> "user", content |-> "greeting"])]
                  ELSE context
    /\ tasks' = IF isConnected(connections, ws, t.conv)
                THEN Spawn(Finish(tasks, t),
                           Task("addMessage", t.client, t.conv, "greeting", "greeting", NoAgent))
                ELSE Finish(tasks, t)
    /\ UNCHANGED <<clients, clientConversations, conversations, connections,
                   emitted, nextId, quota, nodeEnv, conversationRows>>

\* the setTimeout(1000) armed by the first session.updated
GreetingTimer(t) ==
    /\ t \in Pending /\ t.kind = "greeting"
    /\ tasks' = Finish(tasks, t)
    /\ ws' = IF isConnected(connections, ws, t.conv)
             THEN triggerInitialGreeting(connections, ws, t.conv)
             ELSE ws
    /\ UNCHANGED <<clients, clientConversations, conversations, context, connections,
                   emitted, nextId, quota, nodeEnv, conversationRows>>

\* ---- shutdown
\* endConversation(id, 'Server shutdown') up to its await, called and not
\* awaited by the shutdown hook
ShutdownTask(id) ==
    [Task("shutdown", ws[connections[id]].client, id, "updateConversation", "", NoAgent)
        EXCEPT !.lead = calculateLeadScore(context[id]),
               !.summary = <<"Server shutdown">>]

\* onModuleDestroy, run on a termination signal: every live connection's
\* session is ended (not awaited) and its socket closed, then the live set is
\* cleared
OnModuleDestroy ==
    /\ quota.signals > 0
    /\ quota' = [quota EXCEPT !.signals = @ - 1]
    /\ tasks' = tasks (+) SetToBag({ShutdownTask(id) :
                                      id \in DOMAIN connections \cap conversations})
    /\ ws' = [w \in DOMAIN ws |->
                 IF \E id \in DOMAIN connections : connections[id] = w
                 THEN wsClose(ws, w)[w]
                 ELSE ws[w]]
    /\ connections' = EmptyMap
    /\ UNCHANGED <<clients, clientConversations, conversations, context, emitted,
                   nextId, nodeEnv, conversationRows>>

\* the final write of a session ended by the shutdown hook resolves
ShutdownUpdateResolved(t) ==
    /\ t \in Pending /\ t.kind = "shutdown"
    /\ conversations' = conversations \ {t.conv}
    /\ conversationRows' = Put(conversationRows, t.conv,
                               [status |-> "completed", ended_at |-> TRUE,
                                summary |-> t.summary, lead_score |-> t.lead.score,
                                lead_status |-> t.lead.status])
    /\ tasks' = Finish(tasks, t)
    /\ UNCHANGED <<clients, clientConversations, context, connections, ws, emitted,
                   nextId, quota, nodeEnv>>

\* the final write rejects: nobody awaits the promise
ShutdownUpdateRejected(t) ==
    /\ t \in Pending /\ t.kind = "shutdown"
    /\ tasks' = Finish(tasks, t)
    /\ UNCHANGED <<clients, clientConversations, conversations, context, connections,
                   ws, emitted, nextId, quota, nodeEnv, conversationRows>>

\* ------------------------------------------------------- scenarios
\* Session lifecycle: sessions are started, ended and dropped by two clients;
\* the provider sockets open and close (socket errors are inputs of the
\* one-session scenarios below).
Next ==
    \/ \E c \in Clients : HandleConnection(c)
    \/ \E c \in Clients, l \in {"en", ""} : HandleStartConversation(c, l)
    \/ \E t \in Pending, a \in PoolAgents : StartConversationCreated(t, a)
    \/ \E t \in Pending : StartConversationFailed(t)
    \/ \E c \in Clients : HandleEndConversation(c)
    \/ \E c \in Clients : HandleDisconnect(c)
    \/ \E t \in Pending : EndUpdateResolved(t)
    \/ \E t \in Pending : EndUpdateRejected(t)
    \/ \E w \in DOMAIN ws : WsOpen(w)
    \/ \E w \in DOMAIN ws : WsClose(w, FALSE)
    \/ \E t \in Pending : GatewayGreetingTimer(t)

Spec == Init /\ [][Next]_vars

\* Every command: one client drives one session with all six commands.
InitCommands == Boot(Quota(CmdCmds, 1, 0), {"production"})

NextCommands ==
    \/ HandleConnection(1)
    \/ \E l \in {"en", ""} : HandleStartConversation(1, l)
    \/ \E t \in Pending, a \in PoolAgents : StartConversationCreated(t, a)
    \/ \E t \in Pending : StartConversationFailed(t)
    \/ HandleEndConversation(1)
    \/ HandleDisconnect(1)
    \/ \E t \in Pending : EndUpdateResolved(t)
    \/ \E t \in Pending : EndUpdateRejected(t)
    \/ HandleAudioData(1)
    \/ HandleAudioCommit(1)
    \/ HandleInterrupt(1)
    \/ \E l \in Langs : HandleUpdateLanguage(1, l)
    \/ \E t \in Pending, a \in PoolAgents : UpdateLanguageAgentResolved(t, a)
    \/ \E t \in Pending : UpdateLanguageResolved(t)
    \/ \E t \in Pending : UpdateLanguageRejected(t)
    \/ \E w \in DOMAIN ws : WsOpen(w)
    \/ \E w \in DOMAIN ws, err \in BOOLEAN : WsClose(w, err)
    \/ \E t \in Pending : GatewayGreetingTimer(t)

SpecCommands == InitCommands /\ [][NextCommands]_vars

\* Finalized transcripts: one client starts and ends one session while the
\* provider delivers finalized transcripts, which are recorded and persisted.
InitTranscripts == Boot(Quota(TrCmds, 1, TrMsgs), {"production"})

NextTranscripts ==
    \/ HandleConnection(1)
    \/ \E l \in {"en", ""} : HandleStartConversation(1, l)
    \/ \E t \in Pending, a \in PoolAgents : StartConversationCreated(t, a)
    \/ \E t \in Pending : StartConversationFailed(t)
    \/ HandleEndConversation(1)
    \/ HandleDisconnect(1)
    \/ \E t \in Pending : EndSummaryResolved(t)
    \/ \E t \in Pending : EndUpdateResolved(t)
    \/ \E t \in Pending : EndUpdateRejected(t)
    \/ \E w \in DOMAIN ws : WsOpen(w)
    \/ \E w \in DOMAIN ws : WsClose(w, FALSE)
    \/ \E w \in DOMAIN ws, type \in TranscriptEvents, text \in Transcripts :
          WsTranscript(w, type, text)
    \/ \E t \in Pending : AddMessageResolved(t)
    \/ \E t \in Pending : AddMessageRejected(t)
    \/ \E t \in Pending : GatewayGreetingTimer(t)

SpecTranscripts == InitTranscripts /\ [][NextTranscripts]_vars

\* Starting a session: one client starts a session in a language with a pool,
\* in a language without one ("de") or without naming a language; the persona
\* lookup may fall back to the default persona; the language may be changed
\* before the provider socket opens.
StartLanguages == Langs \cup {"", "de"}

InitStart == Boot(Quota(StCmds, 1, 0), {"production"})

NextStart ==
    \/ HandleConnection(1)
    \/ \E l \in StartLanguages : HandleStartConversation(1, l)
    \/ \E t \in Pending, a \in Agents : StartConversationCreated(t, a)
    \/ \E t \in Pending : StartConversationFailed(t)
    \/ HandleDisconnect(1)
    \/ \E t \in Pending : EndUpdateResolved(t)
    \/ \E t \in Pending : EndUpdateRejected(t)
    \/ \E l \in Langs : HandleUpdateLanguage(1, l)
    \/ \E t \in Pending, a \in Agents : UpdateLanguageAgentResolved(t, a)
    \/ \E t \in Pending : UpdateLanguageResolved(t)
    \/ \E t \in Pending : UpdateLanguageRejected(t)
    \/ \E w \in DOMAIN ws : WsOpen(w)
    \/ \E w \in DOMAIN ws, err \in BOOLEAN : WsClose(w, err)
    \/ \E t \in Pending : GatewayGreetingTimer(t)

SpecStart == InitStart /\ [][NextStart]_vars

\* Lead score: a running session of client 1, with any patient-info draft and
\* any history the tool calls and transcripts of the session can have left, is
\* ended by end_conversation.
Botox == <<"b", "o", "t", "o", "x">>
HairTransplant == <<"h", "a", "i", "r", " ", "t", "r", "a", "n", "s", "p", "l", "a", "n", "t">>
HairTransplantCapitalized ==
    <<"H", "a", "i", "r", " ", "T", "r", "a", "n", "s", "p", "l", "a", "n", "t">>
DentalImplants ==
    <<"d", "e", "n", "t", "a", "l", " ", "i", "m", "p", "l", "a", "n", "t", "s">>

OptionalStrings(v) == {<<>>, <<"">>, <<v>>}

Drafts ==
    [fullName : OptionalStrings("Ann"),
     phone    : {<<>>, <<"+44 20 7946 0000">>},
     email    : {<<>>, <<"ann@example.org">>},
     age      : {<<>>, <<0>>, <<34>>},
     country  : {<<>>, <<"UK">>},
     city     : {<<>>, <<"Leeds">>},
     interestedTreatments :
        {<<>>, << <<>> >>, << <<Botox>> >>, << <<HairTransplant>> >>,
         << <<HairTransplantCapitalized>> >>, << <<Botox, DentalImplants>> >>}]

\* n user messages, followed by an assistant message if withAssistant
History(n, withAssistant) ==
    [i \in 1..n |-> [role |-> "user", content |-> "t1"]]
       \o (IF withAssistant THEN <<[role |-> "assistant", content |-> "t1"]>> ELSE <<>>)

Histories == {History(n, b) : n \in 0..MaxUserMessages, b \in BOOLEAN}

\* a session of client 1 after start_conversation{language: "en"}, its socket
\* open and configured, with the given draft and history
Running(info, history) ==
    /\ clients = [c \in Clients |-> IF c = 1 THEN "connected" ELSE "new"]
    /\ clientConversations = Put(EmptyMap, 1, 1)
    /\ conversations = {1}
    /\ context = Put(EmptyMap, 1,
                     [agentName |-> "James", agentGender |-> "male", language |-> "en",
                      patientInfo |-> info, patientId |-> None,
                      messageHistory |-> history])
    /\ connections = Put(EmptyMap, 1, 1)
    /\ ws = << [conv |-> 1, client |-> 1, readyState |-> "OPEN", hasGreeted |-> FALSE,
                out |-> <<Msg("session.update", "en", "echo", "initial")>>,
                calls |-> 0, inbound |-> <<>>] >>
    /\ tasks = EmptyBag
    /\ emitted = [c \in Clients |->
                     IF c = 1 THEN <<Ev("conversation_started", 1, "en", "James", "")>>
                     ELSE <<>>]
    /\ nextId = 1
    /\ nodeEnv = "production"
    /\ conversationRows = EmptyMap

InitLeadScore ==
    /\ \E info \in Drafts, history \in Histories : Running(info, history)
    /\ quota = Quota(LsCmds, 0, 0)

NextLeadScore ==
    \/ HandleEndConversation(1)
    \/ \E t \in Pending : EndSummaryResolved(t)
    \/ \E t \in Pending : EndUpdateResolved(t)
    \/ \E t \in Pending : EndUpdateRejected(t)

SpecLeadScore == InitLeadScore /\ [][NextLeadScore]_vars

\* Audio: one client starts one session and may interrupt it; the provider
\* streams audio deltas, finalized transcripts and messages that are not JSON.
AudioDeltas == {"delta1", "delta2"}

InitAudio == Boot(Quota(AuCmds, 1, AuMsgs), {"production"})

NextAudio ==
    \/ HandleConnection(1)
    \/ HandleStartConversation(1, "en")
    \/ \E t \in Pending, a \in PoolAgents : StartConversationCreated(t, a)
    \/ \E t \in Pending : StartConversationFailed(t)
    \/ HandleInterrupt(1)
    \/ \E w \in DOMAIN ws : WsOpen(w)
    \/ \E w \in DOMAIN ws, err \in BOOLEAN : WsClose(w, err)
    \/ \E w \in DOMAIN ws, delta \in AudioDeltas : WsAudioDelta(w, delta)
    \/ \E w \in DOMAIN ws : WsMalformed(w)
    \/ \E w \in DOMAIN ws :
          WsTranscript(w, "response.audio_transcript.done", "hello")
    \/ \E t \in Pending : AddMessageResolved(t)
    \/ \E t \in Pending : AddMessageRejected(t)
    \/ \E t \in Pending : GatewayGreetingTimer(t)

SpecAudio == InitAudio /\ [][NextAudio]_vars

\* Tool calls: one client starts one session; the provider calls the two
\* tools, a tool that does not exist, and tools with arguments that are not
\* JSON, and may close the socket; in a development and in a production build.
PatientArgs ==
    {[NoPatientInfo EXCEPT !.fullName = <<"Ann">>],
     [NoPatientInfo EXCEPT !.email = <<"ann@example.org">>]}

InitTools == Boot(Quota(ToCmds, 1, ToMsgs), {"development", "production"})

NextTools ==
    \/ HandleConnection(1)
    \/ HandleStartConversation(1, "en")
    \/ \E t \in Pending, a \in PoolAgents : StartConversationCreated(t, a)
    \/ \E t \in Pending : StartConversationFailed(t)
    \/ \E w \in DOMAIN ws : WsOpen(w)
    \/ \E w \in DOMAIN ws : WsClose(w, FALSE)
    \/ \E w \in DOMAIN ws, l \in Langs : WsDetectLanguage(w, l)
    \/ \E t \in Pending, a \in PoolAgents : UpdateLanguageAgentResolved(t, a)
    \/ \E t \in Pending : UpdateLanguageResolved(t)
    \/ \E t \in Pending : UpdateLanguageRejected(t)
    \/ \E w \in DOMAIN ws, args \in PatientArgs : WsUpdatePatientInfo(w, args)
    \/ \E t \in Pending : PatientCreated(t)
    \/ \E t \in Pending : PatientWriteResolved(t)
    \/ \E t \in Pending : PatientWriteRejected(t)
    \/ \E w \in DOMAIN ws : WsUnknownFunction(w)
    \/ \E w \in DOMAIN ws, name \in ToolNames : WsUnparseableArguments(w, name)
    \/ \E t \in Pending : GatewayGreetingTimer(t)

SpecTools == InitTools /\ [][NextTools]_vars

\* Patient info: a running session with any draft of contact fields; the
\* provider calls update_patient_info with new fields, with fields that
\* overwrite earlier ones, and with an empty name; the writes resolve or reject.
MergeDrafts ==
    {d \in Drafts : d.age = <<>> /\ d.country = <<>> /\ d.interestedTreatments = <<>>}

MergeArgs ==
    {[NoPatientInfo EXCEPT !.fullName = <<"Zoe">>],
     [NoPatientInfo EXCEPT !.fullName = <<"">>, !.city = <<"York">>],
     [NoPatientInfo EXCEPT !.email = <<"zoe@example.org">>, !.age = <<41>>],
     [NoPatientInfo EXCEPT !.phone = <<"+44 113 496 0000">>]}

InitMerge ==
    /\ \E info \in MergeDrafts : Running(info, <<>>)
    /\ quota = Quota(0, 0, MgMsgs)

NextMerge ==
    \/ \E w \in DOMAIN ws, args \in MergeArgs : WsUpdatePatientInfo(w, args)
    \/ \E t \in Pending : PatientCreated(t)
    \/ \E t \in Pending : PatientWriteResolved(t)
    \/ \E t \in Pending : PatientWriteRejected(t)

SpecMerge == InitMerge /\ [][NextMerge]_vars

\* Provider events: one client starts one session; the provider acknowledges
\* configuration and calls the detect_language tool.
InitUpstream == Boot(Quota(UpCmds, 1, UpMsgs), {"production"})

NextUpstream ==
    \/ HandleConnection(1)
    \/ \E l \in {"en", ""} : HandleStartConversation(1, l)
    \/ \E t \in Pending, a \in Agents : StartConversationCreated(t, a)
    \/ \E t \in Pending : StartConversationFailed(t)
    \/ HandleDisconnect(1)
    \/ \E t \in Pending : EndUpdateResolved(t)
    \/ \E t \in Pending : EndUpdateRejected(t)
    \/ \E t \in Pending, a \in Agents : UpdateLanguageAgentResolved(t, a)
    \/ \E t \in Pending : UpdateLanguageResolved(t)
    \/ \E t \in Pending : UpdateLanguageRejected(t)
    \/ \E w \in DOMAIN ws : WsOpen(w)
    \/ \E w \in DOMAIN ws : WsClose(w, FALSE)
    \/ \E w \in DOMAIN ws : WsSessionUpdated(w)
    \/ \E w \in DOMAIN ws, l \in Langs : WsDetectLanguage(w, l)
    \/ \E t \in Pending : GatewayGreetingTimer(t)
    \/ \E t \in Pending : GreetingTimer(t)

SpecUpstream == InitUpstream /\ [][NextUpstream]_vars

\* ------------------------------------------------------- properties
\* the sockets created for a conversation id
SocketsOf(id) == {w \in DOMAIN ws : ws[w].conv = id}

\* the registered sessions a client connection started
StartedBy(c) == {id \in conversations : \E w \in SocketsOf(id) : ws[w].client = c}

\* C1: the live set maps every session id to a socket created for that id,
\* and no second socket is ever created for an id that already has one.
C1_OneSocketPerSession ==
    /\ \A id \in DOMAIN connections :
          connections[id] \in DOMAIN ws /\ ws[connections[id]].conv = id
    /\ \A w1, w2 \in DOMAIN ws : ws[w1].conv = ws[w2].conv => w1 = w2

\* two sessions were created, each with its own socket in the live set
C1_TwoSessionsLive == Len(ws) = 2 /\ Cardinality(DOMAIN connections) = 2

\* the step in which a handler ending a session finishes, normally or by the
\* exception of the final updateConversation
EndFinished(t) == EndUpdateResolved(t) \/ EndUpdateRejected(t)

\* C2: when the end_conversation or the disconnect handler of a bound
\* connection finishes, the session is no longer in the registry, whatever
\* the outcome of the calls made while ending.
C2_EndedSessionUnregistered ==
    [][\A t \in Pending : (Ending(t) /\ EndFinished(t)) => t.conv \notin conversations']_vars

\* C3: the disconnect handler of a bound client runs to completion: when it
\* finishes the session is ended, its upstream connection closed and removed
\* from the live set, and the binding removed, whatever the outcome of the
\* persistence calls.
C3_DisconnectCompletes ==
    [][\A t \in Pending :
          (t.kind = "disconnect" /\ EndFinished(t)) =>
             /\ t.conv \notin conversations'
             /\ t.conv \notin DOMAIN connections'
             /\ \A w \in SocketsOf(t.conv) : ws'[w].readyState \in {"CLOSING", "CLOSED"}
             /\ t.client \notin DOMAIN clientConversations']_vars

\* the handling of end_conversation or disconnect has started for c and is
\* suspended in endConversation
EndStarted(c) == \E t \in Pending : Ending(t) /\ t.client = c

\* a command other than start_conversation arrives from c
LaterCommand(c) ==
    \/ HandleAudioData(c)
    \/ HandleAudioCommit(c)
    \/ HandleInterrupt(c)
    \/ HandleEndConversation(c)
    \/ \E l \in Langs : HandleUpdateLanguage(c, l)

\* C4: once the handling of end_conversation (or disconnect) has started for
\* a connection, a later command from that connection finds no binding, is
\* not forwarded upstream and does not touch the session.
C4_EndUnbindsFirst ==
    [][\A c \in Clients :
          (EndStarted(c) /\ LaterCommand(c)) =>
             /\ c \notin DOMAIN clientConversations
             /\ ws' = ws
             /\ context' = context
             /\ tasks' = tasks]_vars

\* C5: each client connection has started at most one session that is
\* still registered.
C5_OneSessionPerConnection == \A c \in Clients : Cardinality(StartedBy(c)) <= 1

\* onConnect or a command other than start_conversation, for connection c
UnboundInput(c) == HandleConnection(c) \/ LaterCommand(c)

\* C6: for a connection with no bound session, onConnect and the commands
\* audio_data, audio_commit, interrupt, end_conversation and update_language
\* change nothing of the process: registry, bindings, live set, sockets
\* (nothing sent upstream), emitted events, suspended handlers.
C6_UnboundNoOp ==
    [][\A c \in Clients :
          (c \notin DOMAIN clientConversations /\ UnboundInput(c)) =>
             UNCHANGED progVars]_vars

\* commands were handled for a connected client that never started a
\* session, and nothing was created, sent or emitted
C6_UnboundCommandsHandled ==
    /\ clients[1] = "connected"
    /\ quota.cmds = 0
    /\ nextId = 0 /\ ws = <<>> /\ tasks = EmptyBag
    /\ clientConversations = EmptyMap
    /\ emitted[1] = <<>>

\* start_conversation of c is suspended in initializeConversation
StartPending(c) == \E t \in Pending : t.kind = "start" /\ t.client = c

\* C7: a disconnect that arrives while start_conversation is still creating
\* the session, before the binding exists, emits no error and changes nothing
\* of the process.
C7_DisconnectDuringStartNoOp ==
    [][\A c \in Clients :
          (StartPending(c) /\ c \notin DOMAIN clientConversations /\ HandleDisconnect(c)) =>
             UNCHANGED progVars]_vars

\* a client is gone while its start_conversation is still suspended, and
\* nothing was emitted to it
C7_GoneWhileStarting ==
    \E c \in Clients :
       /\ clients[c] = "gone"
       /\ StartPending(c)
       /\ c \notin DOMAIN clientConversations
       /\ emitted[c] = <<>>

\* how many messages of a type, with one of the given notes, were written to
\* socket w
Sent(W, w, type, notes) ==
    Cardinality({i \in DOMAIN W[w].out :
                    W[w].out[i].type = type /\ W[w].out[i].note \in notes})

\* generation requests that no tool call caused; session.update messages;
\* reconfigurations; success results of a tool call
GreetingRequests(W, w) == Sent(W, w, "response.create", {"gateway", "greeting"})
SessionUpdates(W, w)   == Sent(W, w, "session.update", {"initial", "reconfigure"})
Reconfigurations(W, w) == Sent(W, w, "session.update", {"reconfigure"})
SuccessResults(W, w)   == Sent(W, w, "conversation.item.create", {"success"})

\* both greeting timers of the session have fired
GreetingSettled(w) ==
    /\ ws[w].hasGreeted
    /\ \A t \in Pending :
          t.kind \in {"greeting", "gatewayGreeting"} => t.conv # ws[w].conv

\* C8: a session whose provider acknowledged the configuration at least once
\* and whose socket is still open has been sent exactly one greeting
\* generation request once its timers have fired.
C8_GreetingExactlyOnce ==
    \A w \in DOMAIN ws :
       (GreetingSettled(w) /\ ws[w].readyState = "OPEN") =>
          GreetingRequests(ws, w) = 1

\* a detect_language call naming the session's current language, on a
\* registered session
SameLanguageCall(w, l) ==
    /\ ws[w].conv \in conversations
    /\ l = context[ws[w].conv].language
    /\ WsDetectLanguage(w, l)

\* C9: a detect_language call naming the session's current language leaves
\* language, agentName and agentGender as they are, starts no persona lookup
\* and no persistence call, sends no session.update, and returns a success
\* result followed by response.create.
C9_SameLanguageNoOp ==
    [][\A w \in DOMAIN ws, l \in Langs :
          SameLanguageCall(w, l) =>
             /\ context' = context
             /\ tasks' = tasks
             /\ SessionUpdates(ws', w) = SessionUpdates(ws, w)
             /\ ws'[w].out = ws[w].out \o
                    << FunctionCallOutput(call_id(w), TRUE),
                       Msg("response.create", "", "", "continue") >>]_vars

\* a success result was returned on a session that was never reconfigured
\* and has no language update under way
C9_SameLanguageAnswered ==
    \E w \in DOMAIN ws :
       /\ SuccessResults(ws, w) = 1
       /\ Reconfigurations(ws, w) = 0
       /\ context[ws[w].conv].language = "en"
       /\ \A t \in Pending : ~UpdatingLanguage(t)

\* the step in which the detect_language call of task t, naming a language
\* other than the session's, returns
DetectLanguageReturns(t) ==
    /\ t.kind = "detect_language"
    /\ UpdateLanguageResolved(t) \/ UpdateLanguageRejected(t)

\* C10: when a detect_language call naming another language returns, the
\* session's persona is a row of that language's pool and exactly one
\* session.update has been sent for the call.
C10_DifferentLanguageReconfigures ==
    [][\A t \in Pending :
          DetectLanguageReturns(t) =>
             /\ [name |-> context'[t.conv].agentName,
                 gender |-> context'[t.conv].agentGender] \in AgentPool(t.lang)
             /\ \A w \in SocketsOf(t.conv) :
                   SessionUpdates(ws', w) = SessionUpdates(ws, w) + 1]_vars

\* the names of the personas of a language's pool
PoolNames(l) == {a.name : a \in AgentPool(l)}

\* the step in which the update_language command of task t, naming a language
\* other than the session's, returns
UpdateLanguageReturns(t) ==
    /\ t.kind = "update_language"
    /\ UpdateLanguageResolved(t) \/ UpdateLanguageRejected(t)

\* the session's provider socket is open and in the live set
UpstreamOpen(id) == isConnected(connections, ws, id)

\* C11: when update_language{language: L} for a bound session in another
\* language returns, the client has been sent language_updated carrying L and
\* an agentName of L's pool, and exactly one session.update has been sent
\* upstream for the command (stated for a session whose provider socket is
\* open, where a session.update can be sent at all).
C11_UpdateLanguageAcknowledged ==
    [][\A t \in Pending :
          (UpdateLanguageReturns(t) /\ UpstreamOpen(t.conv)) =>
             /\ \E n \in PoolNames(t.lang) :
                   emitted'[t.client] =
                      Append(emitted[t.client], Ev("language_updated", None, t.lang, n, ""))
             /\ \A w \in SocketsOf(t.conv) :
                   SessionUpdates(ws', w) = SessionUpdates(ws, w) + 1]_vars

\* the language a start_conversation command asks for
RequestedLanguage(l) == IF l = "" THEN "en" ELSE l

\* the step in which start_conversation of task t succeeds with persona a
\* emits conversation_started with the task's language and the persona's name
StartAnnounces(t, a) ==
    emitted'[t.client] =
       Append(emitted[t.client],
              Ev("conversation_started", NewConversationId, t.lang, a.name, ""))

\* the step in which socket w opens sends the initial configuration, whose
\* voice is one of the two voices and the one of the persona's gender
InitialVoiceMatches(w) ==
    LET out == ws'[w].out
        m   == out[Len(out)]
        g   == context[ws[w].conv].agentGender
    IN /\ Len(out) = Len(ws[w].out) + 1
       /\ m.type = "session.update" /\ m.note = "initial"
       /\ m.voice \in {"echo", "shimmer"}
       /\ g = "male" => m.voice = "echo"
       /\ g = "female" => m.voice = "shimmer"

\* the names start_conversation may announce: the pool's, or the default
\* persona's when the pool is empty or unavailable
PoolOrDefaultNames(l) == PoolNames(l) \cup {DefaultAgent.name}

\* what start_conversation does, the persona's name being one of the pool's
\* or, if withDefault, the default persona's
StartScenario(withDefault) ==
    /\ \A l \in StartLanguages :
          HandleStartConversation(1, l) =>
             \E t \in BagToSet(tasks') :
                t.kind = "start" /\ t.lang = RequestedLanguage(l)
    /\ \A t \in Pending, a \in Agents :
          StartConversationCreated(t, a) =>
             /\ StartAnnounces(t, a)
             /\ a.name \in (IF withDefault THEN PoolOrDefaultNames(t.lang)
                                           ELSE PoolNames(t.lang))
    /\ \A w \in DOMAIN ws : WsOpen(w) => InitialVoiceMatches(w)

\* C12 as stated: a successful start_conversation emits conversation_started
\* with the requested language ("en" when absent) and a persona name of that
\* language's pool; the initial configuration's voice is 'echo' for a male
\* and 'shimmer' for a female persona.
C12_StartAnnouncesPoolPersona == [][StartScenario(FALSE)]_vars

\* C12 amended: the same, the persona name being one of the language's pool
\* or the default persona's name.
C12_StartAnnouncesPersona == [][StartScenario(TRUE)]_vars

\* a session started with a male persona of the pool was announced and its
\* socket opened with the male voice
C12_MaleSessionConfigured ==
    \E w \in DOMAIN ws :
       /\ Len(ws[w].out) > 0 /\ ws[w].out[1].note = "initial"
       /\ ws[w].out[1].voice = "echo"
       /\ Len(emitted[ws[w].client]) > 0
       /\ emitted[ws[w].client][1] =
             Ev("conversation_started", ws[w].conv, "en", "James", "")

\* the session's draft gives the field: it is set, to a string that is not
\* empty or to a number that is not 0
Given(f) == f # <<>>
GivenString(f) == Given(f) /\ f[1] # ""
GivenNumber(f) == Given(f) /\ f[1] # 0

\* the treatment strings of the scenario that contain a high-value keyword,
\* whatever the case of their letters
HighValueExamples == {HairTransplant, HairTransplantCapitalized, DentalImplants}

Points(b, n) == IF b THEN n ELSE 0

\* the sum the scoring rules give for a session
RuleScore(ctx) ==
    LET info == ctx.patientInfo
        list == IF Given(info.interestedTreatments) THEN info.interestedTreatments[1]
                ELSE <<>>
        n == UserMessageCount(ctx.messageHistory)
    IN Points(GivenString(info.fullName), 10)
       + Points(GivenString(info.phone), 15)
       + Points(GivenString(info.email), 5)
       + Points(GivenNumber(info.age), 5)
       + Points(GivenString(info.country), 5)
       + Points(GivenString(info.city), 5)
       + Points(Len(list) > 0, 15)
       + Points(\E i \in DOMAIN list : list[i] \in HighValueExamples, 15)
       + (CASE n >= 10 -> 25 [] n \in 5..9 -> 15 [] n \in 3..4 -> 10
            [] n \in 1..2 -> 5 [] OTHER -> 0)

\* endConversation has computed the lead score of the session and awaits the
\* final updateConversation that carries it
ScoreComputed(t) == Ending(t) /\ t.pc = "updateConversation"

\* C13: every lead score computed is the sum of +10 name, +15 phone, +5
\* email, +5 each for age, country and city, +15 for any treatment interest,
\* +15 more for an interest containing a high-value keyword, plus the
\* engagement bonus for the number of user messages (the session does not
\* change while it is being ended in SpecLeadScore).
C13_ScoreIsRuleSum ==
    \A t \in Pending :
       ScoreComputed(t) => t.lead.score = RuleScore(context[t.conv])

\* the example {fullName, phone, age, country, ["hair transplant"]} with 6
\* user messages scored 80, hot
C13_ExampleScores80 ==
    \E t \in Pending :
       /\ ScoreComputed(t)
       /\ context[t.conv].patientInfo =
             [fullName |-> <<"Ann">>, phone |-> <<"+44 20 7946 0000">>, email |-> <<>>,
              age |-> <<34>>, country |-> <<"UK">>, city |-> <<>>,
              interestedTreatments |-> << <<HairTransplant>> >>]
       /\ UserMessageCount(context[t.conv].messageHistory) = 6
       /\ t.lead = [score |-> 80, status |-> "hot"]

\* C14: every lead score computed is an integer in 0..100, with status hot
\* exactly when score >= 70, warm exactly when 40 <= score < 70 and cold
\* exactly when score < 40.
C14_ScoreRangeAndStatus ==
    \A t \in Pending :
       ScoreComputed(t) =>
          /\ t.lead.score \in 0..100
          /\ t.lead.status \in {"hot", "warm", "cold"}
          /\ t.lead.status = "hot" <=> t.lead.score >= 70
          /\ t.lead.status = "warm" <=> t.lead.score \in 40..69
          /\ t.lead.status = "cold" <=> t.lead.score < 40

\* the boundary score 70 was computed, with status hot
C14_BoundaryScores ==
    \E t \in Pending : ScoreComputed(t) /\ t.lead = [score |-> 70, status |-> "hot"]

\* the audio deltas socket w received and the audio_delta events client c was
\* sent, each in order
AudioReceived(w) == SelectSeq(ws[w].inbound, LAMBDA m : m.type = "response.audio.delta")
AudioEmitted(c)  == SelectSeq(emitted[c], LAMBDA e : e.type = "audio_delta")

\* C15: for each session (its socket, and its client, which has no other
\* session here), the audio_delta events emitted to the client are the
\* response.audio.delta messages received from the provider: as many, in the
\* same order, each carrying the audio of the delta in the same position.
C15_AudioDeltasInOrder ==
    \A w \in DOMAIN ws :
       LET R == AudioReceived(w)
           E == AudioEmitted(ws[w].client)
       IN /\ Len(E) = Len(R)
          /\ \A i \in DOMAIN R : E[i].payload = R[i].payload

\* three deltas arrived, the second twice in a row, and were forwarded as
\* three events in their order of arrival
C15_ThreeDeltasForwarded ==
    \E w \in DOMAIN ws :
       /\ [i \in DOMAIN AudioReceived(w) |-> AudioReceived(w)[i].payload]
             = <<"delta2", "delta2", "delta1">>
       /\ [i \in DOMAIN AudioEmitted(ws[w].client) |-> AudioEmitted(ws[w].client)[i].payload]
             = <<"delta2", "delta2", "delta1">>

\* a response.cancel was written to socket w
CancelSent(w) == \E k \in DOMAIN ws[w].out : ws[w].out[k].type = "response.cancel"

\* C16: an interrupt command for a bound session with an open provider socket
\* (a session that can be generating) writes one response.cancel to the socket
\* and nothing else; and every response.audio.delta arriving once a cancel was
\* sent is appended to the client's events as an audio_delta with its audio.
C16_CancelKeepsForwarding ==
    [][/\ \A c \in Clients :
            (/\ c \in DOMAIN clientConversations
             /\ UpstreamOpen(clientConversations[c])
             /\ HandleInterrupt(c)) =>
               LET w == connections[clientConversations[c]] IN
               /\ ws'[w].out = Append(ws[w].out, Msg("response.cancel", "", "", ""))
               /\ emitted' = emitted
       /\ \A w \in DOMAIN ws, delta \in AudioDeltas :
            (CancelSent(w) /\ WsAudioDelta(w, delta)) =>
               emitted'[ws[w].client] =
                  Append(emitted[ws[w].client], Ev("audio_delta", None, "", "", delta))]_vars

\* delta1 arrived, the session was interrupted, delta2 and delta1 arrived after
\* the cancel was sent, and the client was sent all three in that order
C16_DeltasAfterCancelForwarded ==
    \E w \in DOMAIN ws :
       LET R == AudioReceived(w)
           E == AudioEmitted(ws[w].client)
       IN /\ Len(R) = 3 /\ Len(E) = 3
          /\ R[1].after = 1 /\ R[2].after = 2 /\ R[3].after = 2
          /\ ws[w].out[2].type = "response.cancel"
          /\ <<E[1].payload, E[2].payload, E[3].payload>> = <<"delta1", "delta2", "delta1">>

\* the normalized error event of a failed start
StartError == Ev("error", None, "", "", "Failed to start conversation")

\* C17: when createConversation rejects during start_conversation, the
\* registry and its contexts, the bindings, the live set and the provider
\* sockets are unchanged, and the client is sent one event, the error event
\* (so no conversation_started); no other client is sent anything.
C17_FailedStartCreatesNothing ==
    [][\A t \in Pending :
          StartConversationFailed(t) =>
             /\ conversations' = conversations
             /\ context' = context
             /\ clientConversations' = clientConversations
             /\ connections' = connections
             /\ ws' = ws
             /\ nextId' = nextId
             /\ emitted' = [emitted EXCEPT ![t.client] = Append(@, StartError)]]_vars

\* client 1 started session 1, asked for another and that creation failed:
\* it is still bound to session 1, the only session and the only socket, and
\* the error event follows conversation_started
C17_SecondStartFailed ==
    /\ Len(emitted[1]) = 2
    /\ emitted[1][1].type = "conversation_started"
    /\ emitted[1][2] = StartError
    /\ conversations = {1}
    /\ clientConversations = Put(EmptyMap, 1, 1)
    /\ DOMAIN connections = {1}
    /\ Len(ws) = 1
    /\ \A t \in Pending : t.kind # "start"

\* a message that was not JSON has been delivered on socket w
MalformedReceived(w) == \E i \in DOMAIN ws[w].inbound : ws[w].inbound[i].type = "malformed"

\* C18: a provider message that is not JSON leaves the registry, the
\* contexts, the bindings, the live set, the suspended handlers and the
\* client's events as they are; the session is still registered and its
\* socket still open and live, with nothing written to it; and a delta or a
\* finalized transcript arriving after it is forwarded or recorded as usual.
C18_MalformedMessageIgnored ==
    [][\A w \in DOMAIN ws :
          /\ WsMalformed(w) =>
                /\ <<conversations, context, clientConversations, connections,
                     tasks, emitted>>' =
                   <<conversations, context, clientConversations, connections,
                     tasks, emitted>>
                /\ ws[w].conv \in conversations'
                /\ isConnected(connections', ws', ws[w].conv)
                /\ connections'[ws[w].conv] = w
                /\ ws'[w].out = ws[w].out
                /\ \A v \in DOMAIN ws : v # w => ws'[v] = ws[v]
          /\ \A delta \in AudioDeltas :
                (MalformedReceived(w) /\ WsAudioDelta(w, delta)) =>
                   emitted'[ws[w].client] =
                      Append(emitted[ws[w].client],
                             Ev("audio_delta", None, "", "", delta))
          /\ (MalformedReceived(w)
                 /\ WsTranscript(w, "response.audio_transcript.done", "hello")) =>
                Len(context'[ws[w].conv].messageHistory) =
                   Len(context[ws[w].conv].messageHistory) + 1]_vars

\* a message that was not JSON arrived first, then delta1, which the client
\* was sent; the socket is open
C18_DeltaAfterMalformed ==
    \E w \in DOMAIN ws :
       /\ ws[w].readyState = "OPEN"
       /\ Len(ws[w].inbound) = 2
       /\ ws[w].inbound[1].type = "malformed"
       /\ ws[w].inbound[2].payload = "delta1"
       /\ Len(AudioEmitted(ws[w].client)) = 1
       /\ AudioEmitted(ws[w].client)[1].payload = "delta1"

\* the function_call_output items written to socket w for call n, and the
\* handlers of call n on the session of w that are still suspended
OutputsFor(w, n) ==
    {k \in DOMAIN ws[w].out :
        ws[w].out[k].type = "conversation.item.create" /\ ws[w].out[k].call_id = n}
SuspendedFor(w, n) ==
    {t \in Pending : t.conv = ws[w].conv /\ t.call_id = n}

\* C19: on a socket that is open, every tool call received so far is either
\* still being handled or has been answered by exactly one function_call_output
\* item carrying its call_id, never both and never twice; and on any socket
\* every function_call_output item written is immediately followed by a
\* response.create.  The answer is there whether the tool succeeded or failed.
C19_EveryCallAnsweredOnce ==
    \A w \in DOMAIN ws :
       /\ ws[w].readyState = "OPEN" =>
             \A n \in 1..ws[w].calls :
                Cardinality(OutputsFor(w, n)) + Cardinality(SuspendedFor(w, n)) = 1
       /\ \A n \in 1..ws[w].calls :
             /\ Cardinality(OutputsFor(w, n)) <= 1
             /\ \A k \in OutputsFor(w, n) :
                   /\ k + 1 \in DOMAIN ws[w].out
                   /\ ws[w].out[k + 1] = Msg("response.create", "", "", "continue")
       /\ \A k \in DOMAIN ws[w].out :
             ws[w].out[k].type = "conversation.item.create" =>
                ws[w].out[k].call_id \in 1..ws[w].calls

\* two tool calls were received on an open socket and both handlers have
\* returned: the first, which succeeded after its writes, was answered with
\* call_id 1, the second, which failed, with call_id 2, each answer followed
\* by response.create
C19_TwoCallsAnswered ==
    \E w \in DOMAIN ws :
       /\ ws[w].readyState = "OPEN"
       /\ ws[w].calls = 2
       /\ \A t \in Pending : t.call_id = None
       /\ context[ws[w].conv].patientId # None
       /\ \E k \in DOMAIN ws[w].out :
             /\ k + 3 \in DOMAIN ws[w].out
             /\ ws[w].out[k] = FunctionCallOutput(1, TRUE)
             /\ ws[w].out[k + 1].type = "response.create"
             /\ ws[w].out[k + 2] = FunctionCallError(2, "Unknown function")
             /\ ws[w].out[k + 3].type = "response.create"

\* what the client is sent when a tool-call event is forwarded: a debug_event
\* in a development build, nothing otherwise
ToolEventForwarded(c) ==
    emitted' = [emitted EXCEPT ![c] =
                   IF nodeEnv = "development"
                   THEN Append(@, DebugEvent("response.function_call_arguments.done", ""))
                   ELSE @]

\* the failure result for call n is returned on socket w, if it is open and
\* live, and the session, its socket and its bindings are as before
FailureReturned(w, n, error) ==
    /\ ws'[w].out = IF isConnected(connections, ws, ws[w].conv)
                    THEN ws[w].out \o << FunctionCallError(n, error),
                                         Msg("response.create", "", "", "continue") >>
                    ELSE ws[w].out
    /\ ws'[w].readyState = ws[w].readyState
    /\ <<conversations, connections, clientConversations>>' =
       <<conversations, connections, clientConversations>>

\* C20: a tool call that fails (arguments that are not JSON, a tool name the
\* handler does not know, or updateConversationLanguage rejecting inside
\* detect_language) ends with a function_call_output whose result has
\* success = false, followed by response.create, on the session's open socket;
\* the session stays as it was; and the event is then handed on to the client
\* forwarder like any other event.
C20_ToolFailureReturned ==
    [][/\ \A w \in DOMAIN ws :
            /\ WsUnknownFunction(w) =>
                  /\ FailureReturned(w, call_id(w), "Unknown function")
                  /\ ToolEventForwarded(ws[w].client)
            /\ \A name \in ToolNames :
                  WsUnparseableArguments(w, name) =>
                     /\ FailureReturned(w, call_id(w), "SyntaxError")
                     /\ ToolEventForwarded(ws[w].client)
       /\ \A t \in Pending :
            (t.kind = "detect_language" /\ UpdateLanguageRejected(t)) =>
               \A w \in DOMAIN ws :
                  ws[w].conv = t.conv =>
                     /\ FailureReturned(w, t.call_id, PersistenceError)
                     /\ ToolEventForwarded(t.client)]_vars

\* in a development build, a detect_language call whose write was rejected
\* has been answered with the failure result on the open socket, and the
\* client has been sent the event as a debug_event
C20_RejectedWriteReported ==
    \E w \in DOMAIN ws :
       /\ nodeEnv = "development"
       /\ ws[w].readyState = "OPEN"
       /\ Len(ws[w].out) >= 2
       /\ ws[w].out[Len(ws[w].out) - 1] = FunctionCallError(1, PersistenceError)
       /\ emitted[ws[w].client] # <<>>
       /\ emitted[ws[w].client][Len(emitted[ws[w].client])].type = "debug_event"

\* C21: when a write of updatePatientInfo (createPatient, updatePatient or the
\* updateConversation that links the row) rejects, the contexts, with the
\* merged draft, are as before, the session is still registered and bound as
\* before, and the tool call returns a success result followed by
\* response.create on the session's socket if it is open; the handler ends
\* and the event is forwarded.
C21_PatientWriteFailureSwallowed ==
    [][\A t \in Pending :
          PatientWriteRejected(t) =>
             /\ context' = context
             /\ <<conversations, clientConversations, connections>>' =
                <<conversations, clientConversations, connections>>
             /\ tasks' = tasks (-) SetToBag({t})
             /\ ToolEventForwarded(t.client)
             /\ \A w \in DOMAIN ws :
                   ws[w].conv = t.conv =>
                      /\ ws'[w].readyState = ws[w].readyState
                      /\ ws'[w].out =
                            IF isConnected(connections, ws, t.conv)
                            THEN ws[w].out \o
                                    << FunctionCallOutput(t.call_id, TRUE),
                                       Msg("response.create", "", "", "continue") >>
                            ELSE ws[w].out]_vars

\* update_patient_info{fullName: Ann} was the only call, createPatient
\* rejected (no patient id was stored), and yet the draft holds the name, the
\* session is registered with its socket open, and the call was answered with
\* success
C21_CreateRejectedStillSuccess ==
    \E w \in DOMAIN ws :
       /\ ws[w].readyState = "OPEN" /\ ws[w].calls = 1
       /\ ws[w].conv \in conversations
       /\ context[ws[w].conv].patientInfo.fullName = <<"Ann">>
       /\ context[ws[w].conv].patientId = None
       /\ \A t \in Pending : t.call_id = None
       /\ \E k \in DOMAIN ws[w].out : ws[w].out[k] = FunctionCallOutput(1, TRUE)

\* sequence p is a prefix of sequence q
IsPrefix(p, q) == Len(p) <= Len(q) /\ \A i \in DOMAIN p : p[i] = q[i]

\* the step delivers a finalized transcript on the socket of session id
TranscriptArrives(id) ==
    \E w \in DOMAIN ws, type \in TranscriptEvents, text \in Transcripts :
       ws[w].conv = id /\ WsTranscript(w, type, text)

\* C22: in every step, the history of a registered session is a prefix of its
\* history after the step; a finalized transcript arriving for the session
\* adds exactly one entry at the end, with the transcript as content and the
\* role 'user' for an input-audio transcription and 'assistant' for a
\* response transcript; no other step changes the history.
C22_HistoryAppendOnly ==
    [][\A id \in conversations :
          /\ IsPrefix(context[id].messageHistory, context'[id].messageHistory)
          /\ \A w \in DOMAIN ws, type \in TranscriptEvents, text \in Transcripts :
                (ws[w].conv = id /\ WsTranscript(w, type, text)) =>
                   context'[id].messageHistory =
                      Append(context[id].messageHistory,
                             [role |-> IF type = "response.audio_transcript.done"
                                       THEN "assistant" ELSE "user",
                              content |-> text])
          /\ ~TranscriptArrives(id) =>
                context'[id].messageHistory = context[id].messageHistory]_vars

\* a response transcript arrived before an input-audio transcription, and the
\* history of the registered session holds them in that order
C22_TwoTranscriptsInOrder ==
    \E id \in conversations :
       context[id].messageHistory =
          << [role |-> "assistant", content |-> "t1"],
             [role |-> "user", content |-> "t1"] >>

\* the fields of patientInfo, and those of a draft or an update that are set
PatientFields == DOMAIN NoPatientInfo
FilledFields(info) == {f \in PatientFields : info[f] # <<>>}

\* C23: an update_patient_info call on a registered session leaves every
\* field given in the call with the call's value and every other field with
\* its previous value; no other step changes a draft; hence in every step the
\* set of fields that are set in a draft contains the set before the step.
C23_MergeLastWriteWins ==
    [][\A id \in conversations :
          LET info == context[id].patientInfo
              merged == context'[id].patientInfo
          IN /\ \A w \in DOMAIN ws, args \in MergeArgs :
                   (ws[w].conv = id /\ WsUpdatePatientInfo(w, args)) =>
                      \A f \in PatientFields :
                         merged[f] = IF f \in FilledFields(args) THEN args[f] ELSE info[f]
             /\ (~\E w \in DOMAIN ws, args \in MergeArgs : WsUpdatePatientInfo(w, args)) =>
                   merged = info
             /\ FilledFields(info) \subseteq FilledFields(merged)]_vars

\* a draft that had a phone was updated twice: it holds the empty name and
\* the city of one update, the email and the age of the other, and the phone,
\* never written, that it had
C23_NameOverwrittenOthersKept ==
    \E id \in conversations :
       LET info == context[id].patientInfo IN
       /\ quota.msgs = 0
       /\ info.fullName = <<"">>
       /\ info.city = <<"York">>
       /\ info.email = <<"zoe@example.org">>
       /\ info.age = <<41>>
       /\ info.phone = <<"+44 20 7946 0000">>

\* the moves of a provider socket's readyState: connecting to open, and from
\* either to closed, directly or through closing
ReadyStateMoves ==
    {<<"CONNECTING", "OPEN">>, <<"CONNECTING", "CLOSING">>, <<"CONNECTING", "CLOSED">>,
     <<"OPEN", "CLOSING">>, <<"OPEN", "CLOSED">>, <<"CLOSING", "CLOSED">>}

\* the socket has closed or has been closed
Closed(w) == ws[w].readyState \in {"CLOSING", "CLOSED"}

\* C24: in every step each provider socket keeps its session id and either
\* keeps its state or makes one of the moves connecting -> open -> closed or
\* connecting -> closed; and for a session whose socket has closed or been
\* closed, the step registers no socket in the live set and creates no socket.
C24_ClosedIsTerminal ==
    [][\A w \in DOMAIN ws :
          /\ w \in DOMAIN ws' /\ ws'[w].conv = ws[w].conv
          /\ \/ ws'[w].readyState = ws[w].readyState
             \/ <<ws[w].readyState, ws'[w].readyState>> \in ReadyStateMoves
          /\ Closed(w) =>
                /\ ws[w].conv \notin DOMAIN connections
                /\ ws[w].conv \notin DOMAIN connections'
                /\ \A v \in DOMAIN ws' : ws'[v].conv = ws[w].conv => v = w]_vars

\* the socket of a session opened and then closed on its own; the session is
\* still registered and bound, has no live-set entry and no other socket,
\* while its client has commands left to send
C24_ClosedSessionStaysClosed ==
    \E w \in DOMAIN ws :
       /\ ws[w].readyState = "CLOSED"
       /\ ws[w].out # <<>>
       /\ ws[w].conv \in conversations
       /\ clientConversations[ws[w].client] = ws[w].conv
       /\ ws[w].conv \notin DOMAIN connections
       /\ quota.cmds > 0

\* the socket of a registered session is connecting or open: a close now is a
\* failure or a drop of the provider connection, not the end of a closeSession
Live(w) == ws[w].readyState \in {"CONNECTING", "OPEN"} /\ ws[w].conv \in conversations

\* the provider connection of the registered session of w has dropped
Dropped(w) == ws[w].readyState = "CLOSED" /\ ws[w].conv \in conversations

\* the step is the completion of end_conversation or of the disconnect
\* handling for session id
EndCompletes(id) == \E t \in Pending : Ending(t) /\ t.conv = id /\ EndUpdateResolved(t)

SessionIds == 0..(nextId + 1)

\* C26: in every reachable state and for every id, a second closeSession(id)
\* right after a first leaves the sockets and the live set as the first left
\* them, and closeSession of an id without a live-set entry changes neither.
C26_CloseSessionIdempotent ==
    \A id \in SessionIds :
       LET W1 == closeSessionWs(connections, ws, id)
           C1 == closeSessionConns(connections, id)
       IN /\ closeSessionWs(C1, W1, id) = W1
          /\ closeSessionConns(C1, id) = C1
          /\ id \notin DOMAIN C1
          /\ id \notin DOMAIN connections => (W1 = ws /\ C1 = connections)

\* end_conversation was sent twice for session 1 and both handlers have
\* completed, each calling closeSession(1): the socket, open before, is
\* closing as after one call, and the live set is empty
C26_ClosedTwice ==
    /\ Len(SelectSeq(emitted[1], LAMBDA e : e.type = "conversation_ended")) = 2
    /\ Len(ws) = 1 /\ ws[1].readyState = "CLOSING" /\ ws[1].out # <<>>
    /\ connections = EmptyMap
    /\ \A t \in Pending : ~Ending(t)

\* ---- the end of a session with history, either outcome of the summary
SuCmds == 1
SuMsgs == 2

SummaryDrafts ==
    {d \in Drafts : d.age = <<>> /\ d.country = <<>> /\ d.city = <<>>}

SummaryHistories == {History(n, b) : n \in 1..SuMsgs, b \in BOOLEAN}

InitSummary ==
    /\ \E info \in SummaryDrafts, history \in SummaryHistories : Running(info, history)
    /\ quota = Quota(SuCmds, 0, 0)

NextSummary ==
    \/ HandleEndConversation(1)
    \/ HandleDisconnect(1)
    \/ \E t \in Pending : EndSummarySettled(t)
    \/ \E t \in Pending : EndUpdateResolved(t)
    \/ \E t \in Pending : EndUpdateRejected(t)

SpecSummary == InitSummary /\ [][NextSummary]_vars

\* ---------------------------------------------------------------- C27
\* the row endConversation's final write stores for a session whose summary
\* is undefined
EndedWithoutSummary(lead) ==
    [status |-> "completed", ended_at |-> TRUE, summary |-> NoSummary,
     lead_score |-> lead.score, lead_status |-> lead.status]

\* C27: when the summarization call fails while a session with history is
\* being ended, endConversation goes on to the final write, which carries the
\* status, the end timestamp and the lead score of the session's patient data
\* and no summary; once the store accepts that write the row holds exactly
\* these values and the session has left the registry.
C27_SummaryFailureStillEnds ==
    [][\A t \in Pending :
          /\ EndSummaryRejected(t) =>
                /\ Len(context[t.conv].messageHistory) > 0
                /\ tasks' = Spawn(Finish(tasks, t),
                                  [t EXCEPT !.pc = "updateConversation",
                                            !.summary = NoSummary,
                                            !.lead = calculateLeadScore(context[t.conv])])
          /\ (Ending(t) /\ t.summary = NoSummary /\ EndUpdateResolved(t)) =>
                /\ conversationRows'[t.conv] = EndedWithoutSummary(t.lead)
                /\ t.conv \notin conversations']_vars

\* C27 witness: a session with history has been ended, its summary failed, and
\* its row is completed with a lead score and no summary while the registry
\* no longer holds it
C27_EndedWithoutSummary ==
    /\ 1 \in DOMAIN conversationRows
    /\ Len(context[1].messageHistory) > 0
    /\ conversationRows[1] = EndedWithoutSummary(calculateLeadScore(context[1]))
    /\ conversationRows[1].lead_score > 0
    /\ 1 \notin conversations

\* ---------------------------------------------------------------- C28
\* C28: a session's patientId, once set, never changes.
C28_PatientIdNeverChanges ==
    [][\A id \in DOMAIN context :
          context[id].patientId # None =>
             context'[id].patientId = context[id].patientId]_vars

\* ---- provider events the gateway has no case for, in each environment
EvCmds == 1
EvMsgs == 3

NodeEnvs == {"development", "production", "test"}

EventIds == {"evt_1", "evt_2"}

InitEvents == Boot(Quota(EvCmds, 1, EvMsgs), NodeEnvs)

NextEvents ==
    \/ HandleConnection(1)
    \/ HandleStartConversation(1, "en")
    \/ \E t \in Pending, a \in PoolAgents : StartConversationCreated(t, a)
    \/ \E t \in Pending : StartConversationFailed(t)
    \/ \E w \in DOMAIN ws : WsOpen(w)
    \/ \E w \in DOMAIN ws : WsClose(w, FALSE)
    \/ \E w \in DOMAIN ws, type \in UnrecognizedTypes, id \in EventIds :
          WsUnrecognized(w, type, id)
    \/ \E w \in DOMAIN ws : WsRateLimits(w)
    \/ \E w \in DOMAIN ws, delta \in AudioDeltas : WsAudioDelta(w, delta)
    \/ \E t \in Pending : GatewayGreetingTimer(t)

SpecEvents == InitEvents /\ [][NextEvents]_vars

\* ---------------------------------------------------------------- C29
\* the unrecognized events socket w has received, in order of arrival
UnrecognizedReceived(w) ==
    LET in == SelectSeq(ws[w].inbound, LAMBDA m : m.type \in UnrecognizedTypes)
    IN  [i \in DOMAIN in |-> [type |-> in[i].type, payload |-> in[i].payload]]

\* the provider events client c has been sent as debug_event, in order
DebugEmitted(c) ==
    LET out == SelectSeq(emitted[c], LAMBDA e : e.type = "debug_event")
    IN  [i \in DOMAIN out |-> out[i].event]

\* an unrecognized event arrives on socket w
UnrecognizedArrives(w) ==
    \E type \in UnrecognizedTypes, id \in EventIds : WsUnrecognized(w, type, id)

\* C29 (as the code has it): provider events of an unrecognized type reach the
\* client only when NODE_ENV is 'development', where each is passed through
\* verbatim as a debug_event, in order; in production and in every other
\* environment their arrival emits nothing at all.
C29_DebugEventsOnlyInDevelopment ==
    /\ [](\A w \in DOMAIN ws :
             DebugEmitted(ws[w].client) =
                IF nodeEnv = "development" THEN UnrecognizedReceived(w) ELSE <<>>)
    /\ [][\A w \in DOMAIN ws :
             (UnrecognizedArrives(w) /\ nodeEnv # "development") =>
                emitted' = emitted]_vars

\* C29 witness: in a development build two unrecognized events have been
\* passed through as debug_events, in order, around a recognized one
C29_TwoDebugEvents ==
    /\ nodeEnv = "development"
    /\ \E w \in DOMAIN ws :
          /\ Len(UnrecognizedReceived(w)) = 2
          /\ UnrecognizedReceived(w)[1] # UnrecognizedReceived(w)[2]
          /\ DebugEmitted(ws[w].client) = UnrecognizedReceived(w)
          /\ Len(emitted[ws[w].client]) > 3

\* C29 as stated: unrecognized events are never emitted in production, and
\* outside production each is passed through verbatim as a debug_event.
C29_DebugEventsOutsideProduction ==
    [](\A w \in DOMAIN ws :
          DebugEmitted(ws[w].client) =
             IF nodeEnv # "production" THEN UnrecognizedReceived(w) ELSE <<>>)

\* ---- the pass-through commands of one client around its session's connection
PtCmds == 4

\* the client has been sent conversation_started: it issues its pass-through
\* commands from then on
Started(c) == c \in DOMAIN clientConversations

InitPassThrough == Boot(Quota(PtCmds, 1, 0), {"production"})

NextPassThrough ==
    \/ HandleConnection(1)
    \/ HandleStartConversation(1, "en")
    \/ \E t \in Pending, a \in PoolAgents : StartConversationCreated(t, a)
    \/ \E t \in Pending : StartConversationFailed(t)
    \/ Started(1) /\ HandleAudioData(1)
    \/ Started(1) /\ HandleAudioCommit(1)
    \/ Started(1) /\ HandleInterrupt(1)
    \/ \E w \in DOMAIN ws : WsOpen(w)
    \/ \E w \in DOMAIN ws, err \in BOOLEAN : WsClose(w, err)
    \/ \E t \in Pending : GatewayGreetingTimer(t)

SpecPassThrough == InitPassThrough /\ [][NextPassThrough]_vars

\* ---------------------------------------------------------------- C30
PassThroughTypes == {"input_audio_buffer.append", "input_audio_buffer.commit",
                     "response.cancel"}

\* the pass-through command of the given type, issued by client c
PassThroughCommand(c, type) ==
    CASE type = "input_audio_buffer.append" -> HandleAudioData(c)
      [] type = "input_audio_buffer.commit" -> HandleAudioCommit(c)
      [] type = "response.cancel"           -> HandleInterrupt(c)

\* the pass-through messages written to socket w, in the order written
PassedThrough(w) ==
    LET out == SelectSeq(ws[w].out, LAMBDA m : m.type \in PassThroughTypes)
    IN  [i \in DOMAIN out |-> out[i].type]

\* C30: sendAudio, commitAudio and cancelResponse do not buffer.  A step that
\* handles one of these commands writes its message at the end of what the
\* session's socket has been sent if the client is bound to a session whose
\* socket is registered and open at that moment, and otherwise writes nothing
\* anywhere; what a socket has been sent is never reordered or taken back;
\* and a pass-through message is only ever written by the step that handles
\* its command, never by a later step.
C30_PassThroughUnbuffered ==
    [][/\ \A c \in Clients, type \in PassThroughTypes :
             PassThroughCommand(c, type) =>
                IF /\ c \in DOMAIN clientConversations
                   /\ isConnected(connections, ws, clientConversations[c])
                THEN ws' = [ws EXCEPT ![connections[clientConversations[c]]].out =
                                         Append(@, Msg(type, "", "", ""))]
                ELSE ws' = ws
       /\ \A w \in DOMAIN ws :
             /\ IsPrefix(ws[w].out, ws'[w].out)
             /\ \A i \in (Len(ws[w].out) + 1)..Len(ws'[w].out) :
                   ws'[w].out[i].type \in PassThroughTypes =>
                      /\ ws[w].readyState = "OPEN"
                      /\ PassThroughCommand(ws[w].client, ws'[w].out[i].type)]_vars

\* C30 witness: the client has issued three pass-through commands since its
\* session started; the one that met the socket while it was connecting is
\* nowhere, and the socket, now open, has been sent the other two in the order
\* they were issued
C30_OneDiscardedTwoSentInOrder ==
    /\ quota.cmds = 0
    /\ \E w \in DOMAIN ws :
          /\ ws[w].readyState = "OPEN"
          /\ PassedThrough(w) = <<"input_audio_buffer.commit", "response.cancel">>

\* ---------------------------------------------------------------- C31
\* the greeting request of session id, as triggerInitialGreeting sends it
GreetingRequest(id) == Msg("response.create", context[id].language, "", "greeting")

\* C31: requesting the greeting creates no history entry.  The step in which
\* the greeting timer fires leaves every session's context, and with it the
\* messageHistory, unchanged, starts no persistence call (the only change to
\* the pending handlers is that the timer is gone) and writes no row; all it
\* does is send one response.create carrying the greeting instructions, if the
\* session's socket is registered and open.
C31_GreetingLeavesHistory ==
    [][\A t \in Pending :
          GreetingTimer(t) =>
             /\ context' = context
             /\ tasks' = Finish(tasks, t)
             /\ conversationRows' = conversationRows
             /\ ws' = IF isConnected(connections, ws, t.conv)
                      THEN [ws EXCEPT ![connections[t.conv]].out =
                                         Append(@, GreetingRequest(t.conv))]
                      ELSE ws]_vars

\* C31 witness: the greeting has been requested on an open socket, and the
\* session, still registered, has an empty history and no message write
\* pending
C31_GreetedWithEmptyHistory ==
    \E w \in DOMAIN ws :
       /\ ws[w].readyState = "OPEN"
       /\ ws[w].conv \in conversations
       /\ \E i \in DOMAIN ws[w].out : ws[w].out[i] = GreetingRequest(ws[w].conv)
       /\ context[ws[w].conv].messageHistory = <<>>
       /\ \A t \in Pending : t.kind # "addMessage"

\* ---- shutdown of a process with up to two sessions
SdCmds == 2
SdSignals == 1

InitShutdown ==
    /\ Boot([Quota(SdCmds, MaxConv, 0) EXCEPT !.signals = SdSignals], {"production"})

NextShutdown ==
    \/ \E c \in Clients : HandleConnection(c)
    \/ \E c \in Clients : HandleStartConversation(c, "en")
    \/ \E t \in Pending, a \in PoolAgents : StartConversationCreated(t, a)
    \/ \E t \in Pending : StartConversationFailed(t)
    \/ \E w \in DOMAIN ws : WsOpen(w)
    \/ \E w \in DOMAIN ws : WsClose(w, FALSE)
    \/ \E t \in Pending : GatewayGreetingTimer(t)
    \/ OnModuleDestroy
    \/ \E t \in Pending : ShutdownUpdateResolved(t)
    \/ \E t \in Pending : ShutdownUpdateRejected(t)

SpecShutdown == InitShutdown /\ [][NextShutdown]_vars

\* ---------------------------------------------------------------- C32
\* C32: once the shutdown hook has completed, no session remains in the
\* registry and no provider connection remains in the live set.
C32_ShutdownClearsRegistry ==
    [][OnModuleDestroy => (conversations' = {} /\ connections' = EmptyMap)]_vars

\* ---- finalized transcripts and audio of a session that stays registered
OrCmds == 1
OrMsgs == 3

InitOrder == Boot(Quota(OrCmds, 1, OrMsgs), {"production"})

NextOrder ==
    \/ HandleConnection(1)
    \/ HandleStartConversation(1, "en")
    \/ \E t \in Pending, a \in PoolAgents : StartConversationCreated(t, a)
    \/ \E t \in Pending : StartConversationFailed(t)
    \/ \E w \in DOMAIN ws : WsOpen(w)
    \/ \E w \in DOMAIN ws : WsClose(w, FALSE)
    \/ \E w \in DOMAIN ws, type \in TranscriptEvents, text \in Transcripts :
          WsTranscript(w, type, text)
    \/ \E t \in Pending : AddMessageResolved(t)
    \/ \E t \in Pending : AddMessageRejected(t)
    \/ \E w \in DOMAIN ws, delta \in AudioDeltas : WsAudioDelta(w, delta)
    \/ \E t \in Pending : GatewayGreetingTimer(t)

SpecOrder == InitOrder /\ [][NextOrder]_vars

\* ---------------------------------------------------------------- C33
\* p occurs in q as a subsequence: the elements of p, in their order, among
\* those of q
RECURSIVE Embeds(_, _)
Embeds(p, q) ==
    IF p = <<>> THEN TRUE
    ELSE IF q = <<>> THEN FALSE
    ELSE IF Head(p) = Head(q) THEN Embeds(Tail(p), Tail(q))
    ELSE Embeds(p, Tail(q))

\* the finalized transcripts client c has been sent, in the order emitted
TranscriptsEmitted(c) ==
    LET out == SelectSeq(emitted[c],
                         LAMBDA e : e.type \in {"user_transcript", "transcript_done"})
    IN  [i \in DOMAIN out |->
            [role |-> IF out[i].type = "user_transcript" THEN "user" ELSE "assistant",
             content |-> out[i].payload]]

\* C33, for the finalized transcripts, whose handling awaits a persistence
\* call: the transcript events emitted to a session's client are in the order
\* in which the provider's events arrived (the order of the session's
\* messageHistory, which records each on arrival).
C33_TranscriptsInArrivalOrder ==
    \A w \in DOMAIN ws :
       ws[w].conv \in conversations =>
          Embeds(TranscriptsEmitted(ws[w].client), context[ws[w].conv].messageHistory)

\* ---------------------------------------------------------------- C34
\* C34: at most one patient record is created for a session.  A createPatient
\* call returns a new record only for a session that has none yet; every
\* other write is an update of the session's record.
C34_OnePatientRecordPerSession ==
    [][\A t \in Pending :
          PatientCreated(t) => context[t.conv].patientId = None]_vars

\* ---------------------------------------------------------------- C35
\* the final writes of session id that are in flight
FinalWritesPending(id) ==
    LET writes == {t \in Pending : Ending(t) /\ t.conv = id /\ t.pc = "updateConversation"}
    IN  BagCardinality([t \in writes |-> tasks[t]])

\* the conversation_ended events emitted for session id
EndedEvents(id) ==
    {<<c, i>> \in Clients \X (1..Len(emitted[1]) \cup 1..Len(emitted[2])) :
        /\ i \in DOMAIN emitted[c]
        /\ emitted[c][i].type = "conversation_ended"
        /\ emitted[c][i].conv = id}

\* C35: a session is finalized at most once.  For every session, the final
\* writes in flight and the one the store has accepted are at most one in
\* all, and at most one conversation_ended has been emitted for it.
C35_FinalizedAtMostOnce ==
    \A id \in 1..nextId :
       /\ FinalWritesPending(id) + (IF id \in DOMAIN conversationRows THEN 1 ELSE 0) <= 1
       /\ Cardinality(EndedEvents(id)) <= 1

\* ---------------------------------------------------------------- C36
\* client c has disconnected and nothing started on its behalf is pending
GoneAndQuiet(c) == clients[c] = "gone" /\ \A t \in Pending : t.client # c

\* C36: no session outlives its client.  Once a client has disconnected and
\* all of its handlers have finished, no session it started is in the
\* registry, it has no binding, and no socket opened for one of its sessions
\* is in the live set.
C36_NoSessionOutlivesClient ==
    \A c \in Clients :
       GoneAndQuiet(c) =>
          /\ StartedBy(c) = {}
          /\ c \notin DOMAIN clientConversations
          /\ \A id \in DOMAIN connections : ws[connections[id]].client # c

\* ---------------------------------------------------------------- C37
\* the message write of a finalized transcript settles, either way
AddMessageSettled(t) == AddMessageResolved(t) \/ AddMessageRejected(t)

\* C37: every finalized transcript received for a registered session is
\* forwarded to the client whatever the outcome of persisting the message:
\* when its message write settles, resolved or rejected, the client is sent
\* user_transcript or transcript_done with the transcript.
C37_TranscriptForwardedWhateverTheWrite ==
    [][\A t \in Pending :
          (t.kind = "addMessage" /\ AddMessageSettled(t)) =>
             emitted' = forwardEventToClient(emitted, t.client, t.pc, t.lang)]_vars

\* ---------------------------------------------------------------- C38
\* the step emits language_updated to client c
LanguageUpdatedEmitted(c) ==
    /\ Len(emitted'[c]) = Len(emitted[c]) + 1
    /\ emitted'[c][Len(emitted'[c])].type = "language_updated"

\* C38: every language_updated event is consistent with the session at the
\* moment it is emitted: the client is bound to a registered session, the
\* event's language is that session's language and its agentName that
\* session's persona.
C38_LanguageUpdatedMatchesSession ==
    [][\A c \in Clients :
          LanguageUpdatedEmitted(c) =>
             /\ c \in DOMAIN clientConversations'
             /\ clientConversations'[c] \in conversations'
             /\ LET ctx == context'[clientConversations'[c]]
                    e   == emitted'[c][Len(emitted'[c])]
                IN  e.lang = ctx.language /\ e.agentName = ctx.agentName]_vars

\* ---------------------------------------------------------------- C39
\* the session.update messages written to socket w, in order
ConfigurationsSent(w) == SelectSeq(ws[w].out, LAMBDA m : m.type = "session.update")

\* socket w is the open, registered socket of a registered session for which
\* nothing is pending
OpenAndIdle(w) ==
    /\ ws[w].readyState = "OPEN"
    /\ ws[w].conv \in conversations
    /\ ws[w].conv \in DOMAIN connections /\ connections[ws[w].conv] = w
    /\ \A t \in Pending : t.conv # ws[w].conv

\* C39: the upstream configuration tracks the session.  Whenever no handler
\* is in flight for a session whose provider socket is open, the last
\* session.update sent on it carries the transcription language of the
\* session's current language and the voice of its current agent gender.
C39_UpstreamConfigurationTracksSession ==
    \A w \in DOMAIN ws :
       OpenAndIdle(w) =>
          LET sent == ConfigurationsSent(w)
              ctx  == context[ws[w].conv]
          IN  /\ sent # <<>>
              /\ sent[Len(sent)].lang = getWhisperLanguage(ctx.language)
              /\ sent[Len(sent)].voice = getVoiceForGender(ctx.agentGender)

\* ---- a session that is closed while a timer, a tool call and commands are
\* ---- still to come
AcCmds == 3
AcMsgs == 2

InitAfterClose == Boot(Quota(AcCmds, 1, AcMsgs), {"production"})

NextAfterClose ==
    \/ HandleConnection(1)
    \/ HandleStartConversation(1, "en")
    \/ \E t \in Pending, a \in PoolAgents : StartConversationCreated(t, a)
    \/ \E t \in Pending : StartConversationFailed(t)
    \/ HandleEndConversation(1)
    \/ \E t \in Pending : EndUpdateResolved(t)
    \/ \E t \in Pending : EndUpdateRejected(t)
    \/ HandleAudioCommit(1)
    \/ \E w \in DOMAIN ws : WsOpen(w)
    \/ \E w \in DOMAIN ws : WsClose(w, FALSE)
    \/ \E w \in DOMAIN ws : WsSessionUpdated(w)
    \/ \E w \in DOMAIN ws : WsDetectLanguage(w, "tr")
    \/ \E t \in Pending, a \in PoolAgents : UpdateLanguageAgentResolved(t, a)
    \/ \E t \in Pending : UpdateLanguageResolved(t)
    \/ \E t \in Pending : UpdateLanguageRejected(t)
    \/ \E t \in Pending : GatewayGreetingTimer(t)
    \/ \E t \in Pending : GreetingTimer(t)

SpecAfterClose == InitAfterClose /\ [][NextAfterClose]_vars

\* ---------------------------------------------------------------- C40
\* closeSession has run for the session of socket w, or the socket has closed:
\* the socket is no longer the session's entry in the live set, or is closing
\* or closed
NotLive(w) ==
    \/ ws[w].conv \notin DOMAIN connections
    \/ connections[ws[w].conv] # w
    \/ ws[w].readyState \in {"CLOSING", "CLOSED"}

\* C40: after closeSession has run for a session, or its provider socket has
\* closed, no further message is ever sent upstream for that session: from
\* then on the socket stays out of service and what it has been sent stays
\* as it is, whatever timer fires, tool call returns or command arrives.
C40_NothingSentAfterClose ==
    [][\A w \in DOMAIN ws :
          NotLive(w) =>
             /\ ws'[w].out = ws[w].out
             /\ \/ ws'[w].conv \notin DOMAIN connections'
                \/ connections'[ws'[w].conv] # w
                \/ ws'[w].readyState \in {"CLOSING", "CLOSED"}]_vars

\* C40 witness: closeSession has run for a session whose socket was open; the
\* greeting timer armed by session.updated and a detect_language call that
\* was in flight have since finished, the client's commands are used up,
\* and neither a greeting request, a function result nor an audio commit was
\* ever sent
C40_ClosedBeforeTimerAndToolCall ==
    \E w \in DOMAIN ws :
       /\ ws[w].readyState = "CLOSING"
       /\ ws[w].conv \notin DOMAIN connections
       /\ ws[w].hasGreeted /\ ws[w].calls = 1
       /\ Pending = {}
       /\ quota.cmds = 0
       /\ context[ws[w].conv].language = "tr"
       /\ \A i \in DOMAIN ws[w].out :
             /\ ws[w].out[i].note # "greeting"
             /\ ws[w].out[i].call_id = None
             /\ ws[w].out[i].type # "input_audio_buffer.commit"

====
